---- MODULE Spec2Model ----
(***************************************************************************)
(* The repository analysis engine (ai-engine): seven rule-based dimension  *)
(* scorers, the tech stack and missing-file detectors, the optional        *)
(* Gemini enhancement with its rule-based fallback, and analyzeRepository, *)
(* which assembles the AnalysisResult.                                     *)
(***************************************************************************)
EXTENDS Integers, Sequences, FiniteSets, TLC

(***************************************************************************)
(* JavaScript strings that the code inspects character by character (file  *)
(* paths, patterns, README text) are sequences of one-character strings;   *)
(* chars[s] is the sequence for the literal s.  Names that the code only   *)
(* compares for equality or copies stay TLA+ strings.                      *)
(***************************************************************************)
\* BEGIN chars
chars ==
  "/" :> <<"/">> @@
  "." :> <<".">> @@
  "src/" :> <<"s","r","c","/">> @@
  "lib/" :> <<"l","i","b","/">> @@
  ".eslintrc" :> <<".","e","s","l","i","n","t","r","c">> @@
  ".prettierrc" :> <<".","p","r","e","t","t","i","e","r","r","c">> @@
  "eslint.config" :> <<"e","s","l","i","n","t",".","c","o","n","f","i","g">> @@
  ".flake8" :> <<".","f","l","a","k","e","8">> @@
  "pyproject.toml" :> <<"p","y","p","r","o","j","e","c","t",".","t","o","m","l">> @@
  "rubocop" :> <<"r","u","b","o","c","o","p">> @@
  ".ts" :> <<".","t","s">> @@
  ".tsx" :> <<".","t","s","x">> @@
  "py.typed" :> <<"p","y",".","t","y","p","e","d">> @@
  ".pyi" :> <<".","p","y","i">> @@
  "src" :> <<"s","r","c">> @@
  "lib" :> <<"l","i","b">> @@
  "utils" :> <<"u","t","i","l","s">> @@
  "components" :> <<"c","o","m","p","o","n","e","n","t","s">> @@
  "services" :> <<"s","e","r","v","i","c","e","s">> @@
  "models" :> <<"m","o","d","e","l","s">> @@
  "controllers" :> <<"c","o","n","t","r","o","l","l","e","r","s">> @@
  "middleware" :> <<"m","i","d","d","l","e","w","a","r","e">> @@
  "config" :> <<"c","o","n","f","i","g">> @@
  "tests" :> <<"t","e","s","t","s">> @@
  "docs" :> <<"d","o","c","s">> @@
  "scripts" :> <<"s","c","r","i","p","t","s">> @@
  "public" :> <<"p","u","b","l","i","c">> @@
  "assets" :> <<"a","s","s","e","t","s">> @@
  "frontend" :> <<"f","r","o","n","t","e","n","d">> @@
  "backend" :> <<"b","a","c","k","e","n","d">> @@
  "docs/" :> <<"d","o","c","s","/">> @@
  "installation" :> <<"i","n","s","t","a","l","l","a","t","i","o","n">> @@
  "getting started" :> <<"g","e","t","t","i","n","g"," ","s","t","a","r","t","e","d">> @@
  "usage" :> <<"u","s","a","g","e">> @@
  "example" :> <<"e","x","a","m","p","l","e">> @@
  "api" :> <<"a","p","i">> @@
  "documentation" :> <<"d","o","c","u","m","e","n","t","a","t","i","o","n">> @@
  "contributing" :> <<"c","o","n","t","r","i","b","u","t","i","n","g">> @@
  "license" :> <<"l","i","c","e","n","s","e">> @@
  "badge" :> <<"b","a","d","g","e">> @@
  "shield" :> <<"s","h","i","e","l","d">> @@
  ".env" :> <<".","e","n","v">> @@
  "security" :> <<"s","e","c","u","r","i","t","y">> @@
  "package-lock.json" :> <<"p","a","c","k","a","g","e","-","l","o","c","k",".","j","s","o","n">> @@
  "yarn.lock" :> <<"y","a","r","n",".","l","o","c","k">> @@
  "pnpm-lock.yaml" :> <<"p","n","p","m","-","l","o","c","k",".","y","a","m","l">> @@
  "Pipfile.lock" :> <<"P","i","p","f","i","l","e",".","l","o","c","k">> @@
  "Gemfile.lock" :> <<"G","e","m","f","i","l","e",".","l","o","c","k">> @@
  "poetry.lock" :> <<"p","o","e","t","r","y",".","l","o","c","k">> @@
  "package.json" :> <<"p","a","c","k","a","g","e",".","j","s","o","n">> @@
  "setup.py" :> <<"s","e","t","u","p",".","p","y">> @@
  "Cargo.toml" :> <<"C","a","r","g","o",".","t","o","m","l">> @@
  "error" :> <<"e","r","r","o","r">> @@
  "exception" :> <<"e","x","c","e","p","t","i","o","n">> @@
  "log" :> <<"l","o","g">> @@
  "monitor" :> <<"m","o","n","i","t","o","r">> @@
  "sentry" :> <<"s","e","n","t","r","y">> @@
  "next.config" :> <<"n","e","x","t",".","c","o","n","f","i","g">> @@
  "nuxt.config" :> <<"n","u","x","t",".","c","o","n","f","i","g">> @@
  "angular.json" :> <<"a","n","g","u","l","a","r",".","j","s","o","n">> @@
  "svelte.config" :> <<"s","v","e","l","t","e",".","c","o","n","f","i","g">> @@
  "vite.config" :> <<"v","i","t","e",".","c","o","n","f","i","g">> @@
  "webpack.config" :> <<"w","e","b","p","a","c","k",".","c","o","n","f","i","g">> @@
  "tailwind.config" :> <<"t","a","i","l","w","i","n","d",".","c","o","n","f","i","g">> @@
  "django" :> <<"d","j","a","n","g","o">> @@
  "flask" :> <<"f","l","a","s","k">> @@
  "fastapi" :> <<"f","a","s","t","a","p","i">> @@
  "express" :> <<"e","x","p","r","e","s","s">> @@
  "rails" :> <<"r","a","i","l","s">> @@
  "spring" :> <<"s","p","r","i","n","g">> @@
  "dockerfile" :> <<"d","o","c","k","e","r","f","i","l","e">> @@
  "docker-compose" :> <<"d","o","c","k","e","r","-","c","o","m","p","o","s","e">> @@
  ".github/workflows" :> <<".","g","i","t","h","u","b","/","w","o","r","k","f","l","o","w","s">> @@
  "jest.config" :> <<"j","e","s","t",".","c","o","n","f","i","g">> @@
  "vitest" :> <<"v","i","t","e","s","t">> @@
  "cypress" :> <<"c","y","p","r","e","s","s">> @@
  "pytest" :> <<"p","y","t","e","s","t">> @@
  "prisma" :> <<"p","r","i","s","m","a">> @@
  "mongoose" :> <<"m","o","n","g","o","o","s","e">> @@
  "react" :> <<"r","e","a","c","t">> @@
  "vue" :> <<"v","u","e">> @@
  "postgresql" :> <<"p","o","s","t","g","r","e","s","q","l">> @@
  "mongodb" :> <<"m","o","n","g","o","d","b">> @@
  "redis" :> <<"r","e","d","i","s">> @@
  "aws" :> <<"a","w","s">> @@
  "vercel" :> <<"v","e","r","c","e","l">> @@
  "netlify" :> <<"n","e","t","l","i","f","y">> @@
  "test" :> <<"t","e","s","t">> @@
  "spec" :> <<"s","p","e","c">> @@
  "__tests__" :> <<"_","_","t","e","s","t","s","_","_">> @@
  "src/index.ts" :> <<"s","r","c","/","i","n","d","e","x",".","t","s">> @@
  "src/utils" :> <<"s","r","c","/","u","t","i","l","s">> @@
  "lib/util.pyi" :> <<"l","i","b","/","u","t","i","l",".","p","y","i">> @@
  ".eslintrc.json" :> <<".","e","s","l","i","n","t","r","c",".","j","s","o","n">> @@
  "SECURITY.md" :> <<"S","E","C","U","R","I","T","Y",".","m","d">> @@
  "src/middleware/error.ts" :> <<"s","r","c","/","m","i","d","d","l","e","w","a","r","e","/","e","r","r","o","r",".","t","s">> @@
  "src/logger.ts" :> <<"s","r","c","/","l","o","g","g","e","r",".","t","s">> @@
  "docs/guide.md" :> <<"d","o","c","s","/","g","u","i","d","e",".","m","d">> @@
  "tests/app.test.ts" :> <<"t","e","s","t","s","/","a","p","p",".","t","e","s","t",".","t","s">> @@
  ".github/workflows/ci.yml" :> <<".","g","i","t","h","u","b","/","w","o","r","k","f","l","o","w","s","/","c","i",".","y","m","l">> @@
  "Dockerfile" :> <<"D","o","c","k","e","r","f","i","l","e">> @@
  "docker-compose.yml" :> <<"d","o","c","k","e","r","-","c","o","m","p","o","s","e",".","y","m","l">> @@
  "svelte.config.js" :> <<"s","v","e","l","t","e",".","c","o","n","f","i","g",".","j","s">> @@
  "next.config.js" :> <<"n","e","x","t",".","c","o","n","f","i","g",".","j","s">> @@
  ".env.example" :> <<".","e","n","v",".","e","x","a","m","p","l","e">> @@
  "README.md" :> <<"R","E","A","D","M","E",".","m","d">> @@
  "LICENSE" :> <<"L","I","C","E","N","S","E">> @@
  ".gitignore" :> <<".","g","i","t","i","g","n","o","r","e">> @@
  "main.go" :> <<"m","a","i","n",".","g","o">> @@
  "Installation and Usage" :> <<"I","n","s","t","a","l","l","a","t","i","o","n"," ","a","n","d"," ","U","s","a","g","e">> @@
  "Getting Started: see the Example" :> <<"G","e","t","t","i","n","g"," ","S","t","a","r","t","e","d",":"," ","s","e","e"," ","t","h","e"," ","E","x","a","m","p","l","e">> @@
  "API Documentation, Contributing, License, badges by shields.io" :> <<"A","P","I"," ","D","o","c","u","m","e","n","t","a","t","i","o","n",","," ","C","o","n","t","r","i","b","u","t","i","n","g",","," ","L","i","c","e","n","s","e",","," ","b","a","d","g","e","s"," ","b","y"," ","s","h","i","e","l","d","s",".","i","o">> @@
  "Built with React, Vue, PostgreSQL, MongoDB and Redis on AWS, Vercel, Netlify" :> <<"B","u","i","l","t"," ","w","i","t","h"," ","R","e","a","c","t",","," ","V","u","e",","," ","P","o","s","t","g","r","e","S","Q","L",","," ","M","o","n","g","o","D","B"," ","a","n","d"," ","R","e","d","i","s"," ","o","n"," ","A","W","S",","," ","V","e","r","c","e","l",","," ","N","e","t","l","i","f","y">> @@
  "Svelte app" :> <<"S","v","e","l","t","e"," ","a","p","p">> @@
  "a.md" :> <<"a",".","m","d">> @@
  "b.md" :> <<"b",".","m","d">> @@
  "c.md" :> <<"c",".","m","d">> @@
  "d.md" :> <<"d",".","m","d">> @@
  "e.md" :> <<"e",".","m","d">> @@
  "f.md" :> <<"f",".","m","d">> @@
  "g.md" :> <<"g",".","m","d">> @@
  "h.md" :> <<"h",".","m","d">> @@
  "i.md" :> <<"i",".","m","d">> @@
  "j.md" :> <<"j",".","m","d">> @@
  "k.md" :> <<"k",".","m","d">> @@
  "l.md" :> <<"l",".","m","d">> @@
  "m.md" :> <<"m",".","m","d">> @@
  "n.md" :> <<"n",".","m","d">> @@
  "o.md" :> <<"o",".","m","d">> @@
  "p.md" :> <<"p",".","m","d">> @@
  ".github" :> <<".","g","i","t","h","u","b">> @@
  "src/a" :> <<"s","r","c","/","a">> @@
  "src/b" :> <<"s","r","c","/","b">> @@
  "src/c" :> <<"s","r","c","/","c">> @@
  "analysis:" :> <<"a","n","a","l","y","s","i","s",":">> @@
  "octo" :> <<"o","c","t","o">> @@
  "Octo" :> <<"O","c","t","o">> @@
  "app" :> <<"a","p","p">> @@
  "octo/app" :> <<"o","c","t","o","/","a","p","p">> @@
  "Octo/app" :> <<"O","c","t","o","/","a","p","p">> @@
  "a@x.io" :> <<"a","@","x",".","i","o">> @@
  "A@x.io" :> <<"A","@","x",".","i","o">> @@
  " a@x.io" :> <<" ","a","@","x",".","i","o">> @@
  "b@x.io" :> <<"b","@","x",".","i","o">>
\* END chars

(***************************************************************************)
(* String.prototype operations of the code, on character sequences.        *)
(***************************************************************************)
lowerCase ==
  [c \in {"A", "B", "C", "D", "E", "F", "G", "H", "I", "J", "K", "L", "M",
          "N", "O", "P", "Q", "R", "S", "T", "U", "V", "W", "X", "Y", "Z"} |->
     CASE c = "A" -> "a" [] c = "B" -> "b" [] c = "C" -> "c" [] c = "D" -> "d"
       [] c = "E" -> "e" [] c = "F" -> "f" [] c = "G" -> "g" [] c = "H" -> "h"
       [] c = "I" -> "i" [] c = "J" -> "j" [] c = "K" -> "k" [] c = "L" -> "l"
       [] c = "M" -> "m" [] c = "N" -> "n" [] c = "O" -> "o" [] c = "P" -> "p"
       [] c = "Q" -> "q" [] c = "R" -> "r" [] c = "S" -> "s" [] c = "T" -> "t"
       [] c = "U" -> "u" [] c = "V" -> "v" [] c = "W" -> "w" [] c = "X" -> "x"
       [] c = "Y" -> "y" [] c = "Z" -> "z"]

lowerChar(c) == IF c \in DOMAIN lowerCase THEN lowerCase[c] ELSE c

toLowerCase(s) == [i \in 1..Len(s) |-> lowerChar(s[i])]

startsWith(s, p) == Len(s) >= Len(p) /\ \A j \in 1..Len(p) : s[j] = p[j]

endsWith(s, p) == Len(s) >= Len(p) /\ \A j \in 1..Len(p) : s[Len(s) - Len(p) + j] = p[j]

includes(s, p) == \E i \in 1..(Len(s) - Len(p) + 1) : \A j \in 1..Len(p) : s[i + j - 1] = p[j]

\* s.split("/")[0]: the part of s before its first "/", all of s when it has none
splitFirst(s) ==
  LET slashes == {i \in 1..Len(s) : s[i] = "/"}
  IN  IF slashes = {} THEN s
      ELSE SubSeq(s, 1, (CHOOSE i \in slashes : \A j \in slashes : i <= j) - 1)

\* Array.prototype.some and filter(...).length over a sequence
some(seq, P(_)) == \E i \in 1..Len(seq) : P(seq[i])

count(seq, P(_)) == Cardinality({i \in 1..Len(seq) : P(seq[i])})

\* a clamp that drops Math.min(100, ...)
clampWithoutCeiling(score) == IF score > 0 THEN score ELSE 0

\* Math.max(0, Math.min(100, score))
clamp(score) ==
  LET m == IF score < 100 THEN score ELSE 100
  IN  IF m > 0 THEN m ELSE 0

(***************************************************************************)
(* The README of a snapshot: null, or a string.  A string is its text      *)
(* followed by `filler` line breaks, so that README lengths in the         *)
(* thousands need no thousand-character literal; no keyword the code looks *)
(* for contains a line break.                                              *)
(***************************************************************************)
readmeLength(r) == Len(r.text) + r.filler

\* JavaScript truthiness of input.readme: neither null nor the empty string
readmeTruthy(r) == ~r.isNull /\ readmeLength(r) > 0

\* input.readme.toLowerCase().includes(k)
readmeIncludes(r, k) == includes(toLowerCase(r.text), k)

(***************************************************************************)
(* RULE ENGINE: the seven dimension scorers.                               *)
(***************************************************************************)
\* the code quality score that takes 20 points, not 10, for a crowded root
calculateCodeQualityScoreHarshOnRoot(input) ==
  LET hasSrcDir == some(input.fileTree, LAMBDA f : startsWith(f.path, chars["src/"]))
      hasLibDir == some(input.fileTree, LAMBDA f : startsWith(f.path, chars["lib/"]))
      lints == {".eslintrc", ".prettierrc", "eslint.config", ".flake8", "pyproject.toml", "rubocop"}
      hasLinting == some(input.fileTree,
                         LAMBDA f : \E lint \in lints : includes(toLowerCase(f.path), chars[lint]))
      hasTypeScript == some(input.fileTree,
                            LAMBDA f : endsWith(f.path, chars[".ts"]) \/ endsWith(f.path, chars[".tsx"]))
      hasTypeHints == some(input.fileTree,
                           LAMBDA f : includes(f.path, chars["py.typed"]) \/ endsWith(f.path, chars[".pyi"]))
      rootFiles == count(input.fileTree,
                         LAMBDA f : ~includes(f.path, chars["/"]) /\ f.type = "file")
      score == 50
               + (IF hasSrcDir \/ hasLibDir THEN 10 ELSE 0)
               + (IF input.hasTests THEN 15 ELSE 0)
               + (IF hasLinting THEN 10 ELSE 0)
               + (IF hasTypeScript \/ hasTypeHints THEN 10 ELSE 0)
               - (IF rootFiles > 15 THEN 20 ELSE 0)
  IN  clamp(score)

calculateCodeQualityScore(input) ==
  LET hasSrcDir == some(input.fileTree, LAMBDA f : startsWith(f.path, chars["src/"]))
      hasLibDir == some(input.fileTree, LAMBDA f : startsWith(f.path, chars["lib/"]))
      lints == {".eslintrc", ".prettierrc", "eslint.config", ".flake8", "pyproject.toml", "rubocop"}
      hasLinting == some(input.fileTree,
                         LAMBDA f : \E lint \in lints : includes(toLowerCase(f.path), chars[lint]))
      hasTypeScript == some(input.fileTree,
                            LAMBDA f : endsWith(f.path, chars[".ts"]) \/ endsWith(f.path, chars[".tsx"]))
      hasTypeHints == some(input.fileTree,
                           LAMBDA f : includes(f.path, chars["py.typed"]) \/ endsWith(f.path, chars[".pyi"]))
      rootFiles == count(input.fileTree,
                         LAMBDA f : ~includes(f.path, chars["/"]) /\ f.type = "file")
      score == 50
               + (IF hasSrcDir \/ hasLibDir THEN 10 ELSE 0)
               + (IF input.hasTests THEN 15 ELSE 0)
               + (IF hasLinting THEN 10 ELSE 0)
               + (IF hasTypeScript \/ hasTypeHints THEN 10 ELSE 0)
               - (IF rootFiles > 15 THEN 10 ELSE 0)
  IN  clamp(score)

goodDirs ==
  <<"src", "lib", "utils", "components", "services", "models", "controllers",
    "middleware", "config", "tests", "docs", "scripts", "public", "assets">>

calculateArchitectureScore(input) ==
  LET uniqueDirs == {splitFirst(input.fileTree[i].path) :
                       i \in {j \in 1..Len(input.fileTree) : input.fileTree[j].type = "dir"}}
      foundGoodDirs == count(goodDirs, LAMBDA d : chars[d] \in uniqueDirs)
      hasSeparation == chars["src"] \in uniqueDirs
                       \/ (chars["frontend"] \in uniqueDirs /\ chars["backend"] \in uniqueDirs)
      score == 40
               + foundGoodDirs * 5
               + (IF hasSeparation THEN 15 ELSE 0)
               + (IF input.hasGitignore THEN 5 ELSE 0)
  IN  clamp(score)

calculateDocumentationScore(input) ==
  LET r == input.readme
      has(k) == readmeIncludes(r, chars[k])
      readmePart ==
        IF readmeTruthy(r)
        THEN (IF readmeLength(r) > 2000 THEN 30
              ELSE IF readmeLength(r) > 500 THEN 20
              ELSE IF readmeLength(r) > 100 THEN 10 ELSE 0)
             + (IF has("installation") \/ has("getting started") THEN 10 ELSE 0)
             + (IF has("usage") \/ has("example") THEN 10 ELSE 0)
             + (IF has("api") \/ has("documentation") THEN 5 ELSE 0)
             + (IF has("contributing") THEN 5 ELSE 0)
             + (IF has("license") THEN 5 ELSE 0)
             + (IF has("badge") \/ has("shield") THEN 5 ELSE 0)
        ELSE 0
      hasDocs == some(input.fileTree, LAMBDA f : startsWith(f.path, chars["docs/"]))
      score == 0
               + readmePart
               + (IF input.hasContributing THEN 10 ELSE 0)
               + (IF input.hasChangelog THEN 10 ELSE 0)
               + (IF hasDocs THEN 10 ELSE 0)
  IN  clamp(score)

lockFiles ==
  {"package-lock.json", "yarn.lock", "pnpm-lock.yaml", "Pipfile.lock", "Gemfile.lock", "poetry.lock"}

\* the security score that gives 5 points, not 15, for the env template
calculateSecurityScoreLowTemplateBonus(input) ==
  LET tracksEnv == some(input.fileTree, LAMBDA f : includes(f.path, chars[".env"]))
      hasSecurityPolicy == some(input.fileTree,
                                LAMBDA f : includes(toLowerCase(f.path), chars["security"]))
      hasLockFile == some(input.fileTree, LAMBDA f : \E lock \in lockFiles : f.path = chars[lock])
      score == 50
               + (IF input.hasGitignore THEN 10 ELSE 0)
               - (IF ~input.hasEnvExample /\ tracksEnv THEN 20 ELSE 0)
               + (IF input.hasEnvExample THEN 5 ELSE 0)
               + (IF hasSecurityPolicy THEN 10 ELSE 0)
               + (IF hasLockFile THEN 10 ELSE 0)
               + (IF input.hasGitignore THEN 5 ELSE 0)
  IN  clamp(score)

calculateSecurityScore(input) ==
  LET tracksEnv == some(input.fileTree, LAMBDA f : includes(f.path, chars[".env"]))
      hasSecurityPolicy == some(input.fileTree,
                                LAMBDA f : includes(toLowerCase(f.path), chars["security"]))
      hasLockFile == some(input.fileTree, LAMBDA f : \E lock \in lockFiles : f.path = chars[lock])
      score == 50
               + (IF input.hasGitignore THEN 10 ELSE 0)
               - (IF ~input.hasEnvExample /\ tracksEnv THEN 20 ELSE 0)
               + (IF input.hasEnvExample THEN 15 ELSE 0)
               + (IF hasSecurityPolicy THEN 10 ELSE 0)
               + (IF hasLockFile THEN 10 ELSE 0)
               + (IF input.hasGitignore THEN 5 ELSE 0)
  IN  clamp(score)

\* the license adjustment subtracted instead of added
calculateBestPracticesScorePenalizingLicense(input) ==
  LET score == 30
               - (IF input.hasLicense THEN 15 ELSE 0)
               + (IF input.hasGitignore THEN 10 ELSE 0)
               + (IF input.hasTests THEN 15 ELSE 0)
               + (IF input.hasCICD THEN 15 ELSE 0)
               + (IF input.hasEnvExample THEN 5 ELSE 0)
               + (IF input.hasDockerfile THEN 5 ELSE 0)
               + (IF input.hasContributing THEN 5 ELSE 0)
  IN  clamp(score)

calculateBestPracticesScore(input) ==
  LET score == 30
               + (IF input.hasLicense THEN 15 ELSE 0)
               + (IF input.hasGitignore THEN 10 ELSE 0)
               + (IF input.hasTests THEN 15 ELSE 0)
               + (IF input.hasCICD THEN 15 ELSE 0)
               + (IF input.hasEnvExample THEN 5 ELSE 0)
               + (IF input.hasDockerfile THEN 5 ELSE 0)
               + (IF input.hasContributing THEN 5 ELSE 0)
  IN  clamp(score)

\* the community score without the points for recent activity
calculateCommunityHealthScoreWithoutRecency(input, today) ==
  LET nContrib == Len(input.contributors)
      closedIssues == count(input.issues, LAMBDA i : i.state = "closed" /\ ~i.isPR)
      openIssues == count(input.issues, LAMBDA i : i.state = "open" /\ ~i.isPR)
      score == 30
               + (IF nContrib >= 5 THEN 20 ELSE IF nContrib >= 2 THEN 10 ELSE 0)
               + (IF input.repo.stars >= 100 THEN 15
                  ELSE IF input.repo.stars >= 10 THEN 10
                  ELSE IF input.repo.stars >= 1 THEN 5 ELSE 0)
               + (IF closedIssues > openIssues THEN 10 ELSE 0)
               + (IF Len(input.repo.topics) > 0 THEN 5 ELSE 0)
  IN  clamp(score)

\* Times are whole days; `today` is Date.now() at the moment of the call.
calculateCommunityHealthScore(input, today) ==
  LET nContrib == Len(input.contributors)
      closedIssues == count(input.issues, LAMBDA i : i.state = "closed" /\ ~i.isPR)
      openIssues == count(input.issues, LAMBDA i : i.state = "open" /\ ~i.isPR)
      daysSinceUpdate == today - input.repo.pushedAt
      score == 30
               + (IF nContrib >= 5 THEN 20 ELSE IF nContrib >= 2 THEN 10 ELSE 0)
               + (IF input.repo.stars >= 100 THEN 15
                  ELSE IF input.repo.stars >= 10 THEN 10
                  ELSE IF input.repo.stars >= 1 THEN 5 ELSE 0)
               + (IF closedIssues > openIssues THEN 10 ELSE 0)
               + (IF daysSinceUpdate < 7 THEN 15
                  ELSE IF daysSinceUpdate < 30 THEN 10
                  ELSE IF daysSinceUpdate < 90 THEN 5 ELSE 0)
               + (IF Len(input.repo.topics) > 0 THEN 5 ELSE 0)
  IN  clamp(score)

calculateProductionReadinessScore(input) ==
  LET hasVersioning == some(input.fileTree,
                            LAMBDA f : f.path = chars["package.json"] \/ f.path = chars["setup.py"]
                                       \/ f.path = chars["Cargo.toml"])
      hasErrorHandling == some(input.fileTree,
                               LAMBDA f : includes(f.path, chars["error"])
                                          \/ includes(f.path, chars["exception"])
                                          \/ includes(f.path, chars["middleware"]))
      hasMonitoring == some(input.fileTree,
                            LAMBDA f : includes(f.path, chars["log"])
                                       \/ includes(f.path, chars["monitor"])
                                       \/ includes(f.path, chars["sentry"]))
      score == 20
               + (IF input.hasCICD THEN 20 ELSE 0)
               + (IF input.hasTests THEN 15 ELSE 0)
               + (IF input.hasDockerfile THEN 10 ELSE 0)
               + (IF input.hasEnvExample THEN 10 ELSE 0)
               + (IF input.hasGitignore THEN 5 ELSE 0)
               + (IF input.hasLicense THEN 5 ELSE 0)
               + (IF hasVersioning THEN 5 ELSE 0)
               + (IF hasErrorHandling THEN 5 ELSE 0)
               + (IF hasMonitoring THEN 5 ELSE 0)
  IN  clamp(score)

(***************************************************************************)
(* TECH STACK DETECTION.  An item is (name, category, confidence); the     *)
(* confidence is in tenths (9 for 0.9).                                    *)
(***************************************************************************)
frameworkDetectors ==
  << [pattern |-> "next.config",       name |-> "Next.js",          category |-> "framework"],
     [pattern |-> "nuxt.config",       name |-> "Nuxt.js",          category |-> "framework"],
     [pattern |-> "angular.json",      name |-> "Angular",          category |-> "framework"],
     [pattern |-> "svelte.config",     name |-> "Svelte",           category |-> "framework"],
     [pattern |-> "vite.config",       name |-> "Vite",             category |-> "tool"],
     [pattern |-> "webpack.config",    name |-> "Webpack",          category |-> "tool"],
     [pattern |-> "tailwind.config",   name |-> "Tailwind CSS",     category |-> "framework"],
     [pattern |-> "django",            name |-> "Django",           category |-> "framework"],
     [pattern |-> "flask",             name |-> "Flask",            category |-> "framework"],
     [pattern |-> "fastapi",           name |-> "FastAPI",          category |-> "framework"],
     [pattern |-> "express",           name |-> "Express.js",       category |-> "framework"],
     [pattern |-> "rails",             name |-> "Ruby on Rails",    category |-> "framework"],
     [pattern |-> "spring",            name |-> "Spring",           category |-> "framework"],
     [pattern |-> "dockerfile",        name |-> "Docker",           category |-> "tool"],
     [pattern |-> "docker-compose",    name |-> "Docker Compose",   category |-> "tool"],
     [pattern |-> ".github/workflows", name |-> "GitHub Actions",   category |-> "ci-cd"],
     [pattern |-> "jest.config",       name |-> "Jest",             category |-> "testing"],
     [pattern |-> "vitest",            name |-> "Vitest",           category |-> "testing"],
     [pattern |-> "cypress",           name |-> "Cypress",          category |-> "testing"],
     [pattern |-> "pytest",            name |-> "Pytest",           category |-> "testing"],
     [pattern |-> "prisma",            name |-> "Prisma",           category |-> "database"],
     [pattern |-> "mongoose",          name |-> "MongoDB/Mongoose", category |-> "database"],
     [pattern |-> ".env",              name |-> "dotenv",           category |-> "tool"] >>

readmeDetectors ==
  << [keyword |-> "react",      name |-> "React",      category |-> "framework"],
     [keyword |-> "vue",        name |-> "Vue.js",     category |-> "framework"],
     [keyword |-> "postgresql", name |-> "PostgreSQL", category |-> "database"],
     [keyword |-> "mongodb",    name |-> "MongoDB",    category |-> "database"],
     [keyword |-> "redis",      name |-> "Redis",      category |-> "database"],
     [keyword |-> "aws",        name |-> "AWS",        category |-> "cloud"],
     [keyword |-> "vercel",     name |-> "Vercel",     category |-> "cloud"],
     [keyword |-> "netlify",    name |-> "Netlify",    category |-> "cloud"] >>

\* languages.forEach: one item per key of input.repo.languages, in key order
languageItems(input) ==
  [i \in 1..Len(input.repo.languages) |->
     [name |-> input.repo.languages[i], category |-> "language", confidence |-> 9]]

\* frameworkDetectors.forEach: one item per pattern that some lowercased path includes
RECURSIVE frameworkItems(_, _)
frameworkItems(files, k) ==
  IF k > Len(frameworkDetectors) THEN << >>
  ELSE LET d == frameworkDetectors[k]
           hit == some(files, LAMBDA f : includes(f, chars[d.pattern]))
       IN  (IF hit THEN << [name |-> d.name, category |-> d.category, confidence |-> 8] >>
            ELSE << >>) \o frameworkItems(files, k + 1)

\* readmeDetectors.forEach: push when the keyword occurs and no item has the name yet
RECURSIVE readmeItems(_, _, _)
readmeItems(r, stack, k) ==
  IF k > Len(readmeDetectors) THEN stack
  ELSE LET d == readmeDetectors[k]
           push == readmeIncludes(r, chars[d.keyword])
                   /\ ~some(stack, LAMBDA s : s.name = d.name)
       IN  readmeItems(r,
                       IF push
                       THEN Append(stack, [name |-> d.name, category |-> d.category, confidence |-> 6])
                       ELSE stack,
                       k + 1)

\* the stack returned without the filter
withoutDeduplication(stack, seen, k) == stack

\* stack.filter with the `seen` set: keeps the first item of each name
RECURSIVE deduplicate(_, _, _)
deduplicate(stack, seen, k) ==
  IF k > Len(stack) THEN << >>
  ELSE IF stack[k].name \in seen THEN deduplicate(stack, seen, k + 1)
  ELSE << stack[k] >> \o deduplicate(stack, seen \cup {stack[k].name}, k + 1)

detectTechStack(input) ==
  LET files == [i \in 1..Len(input.fileTree) |-> toLowerCase(input.fileTree[i].path)]
      afterPaths == languageItems(input) \o frameworkItems(files, 1)
      stack == IF readmeTruthy(input.readme)
               THEN readmeItems(input.readme, afterPaths, 1)
               ELSE afterPaths
  IN  deduplicate(stack, {}, 1)

(***************************************************************************)
(* MISSING FILES DETECTION.  An entry is (name, importance); its           *)
(* description is a fixed text per name and is left out.                   *)
(***************************************************************************)
\* the detection with the README test inverted: if (input.readme)
detectMissingFilesReadmeInverted(input) ==
  LET entry(absent, name, importance) ==
        IF absent THEN << [name |-> name, importance |-> importance] >> ELSE << >>
  IN  entry(~input.hasLicense, "LICENSE", "critical")
      \o entry(readmeTruthy(input.readme), "README.md", "critical")
      \o entry(~input.hasGitignore, ".gitignore", "critical")
      \o entry(~input.hasTests, "tests/", "critical")
      \o entry(~input.hasCICD, ".github/workflows/", "recommended")
      \o entry(~input.hasEnvExample, ".env.example", "recommended")
      \o entry(~input.hasContributing, "CONTRIBUTING.md", "recommended")
      \o entry(~input.hasChangelog, "CHANGELOG.md", "nice-to-have")
      \o entry(~input.hasDockerfile, "Dockerfile", "nice-to-have")

detectMissingFiles(input) ==
  LET entry(absent, name, importance) ==
        IF absent THEN << [name |-> name, importance |-> importance] >> ELSE << >>
  IN  entry(~input.hasLicense, "LICENSE", "critical")
      \o entry(~readmeTruthy(input.readme), "README.md", "critical")
      \o entry(~input.hasGitignore, ".gitignore", "critical")
      \o entry(~input.hasTests, "tests/", "critical")
      \o entry(~input.hasCICD, ".github/workflows/", "recommended")
      \o entry(~input.hasEnvExample, ".env.example", "recommended")
      \o entry(~input.hasContributing, "CONTRIBUTING.md", "recommended")
      \o entry(~input.hasChangelog, "CHANGELOG.md", "nice-to-have")
      \o entry(~input.hasDockerfile, "Dockerfile", "nice-to-have")

(***************************************************************************)
(* The rule-based fallback of the AI enhancement.  An insight is           *)
(* (category, severity, title) with the values its texts interpolate:      *)
(* nums (numbers), words (names) and ext (a file extension).  A suggestion *)
(* is its template text with the number and the name it interpolates.      *)
(***************************************************************************)
insight(category, severity, title, nums, words) ==
  [category |-> category, severity |-> severity, title |-> title,
   nums |-> nums, words |-> words, ext |-> << >>]

suggestion(text, num, word) == [text |-> text, num |-> num, word |-> word]

\* input.repo.language || "Unknown"; the empty string stands for null
primaryLanguage(input) == IF input.repo.language = "" THEN "Unknown" ELSE input.repo.language

testFrameworkFor(lang) ==
  IF lang = "JavaScript" \/ lang = "TypeScript" THEN "Jest or Vitest"
  ELSE IF lang = "Python" THEN "Pytest"
  ELSE IF lang = "Java" THEN "JUnit 5"
  ELSE IF lang = "Go" THEN "the built-in testing package"
  ELSE IF lang = "Ruby" THEN "RSpec"
  ELSE IF lang = "PHP" THEN "PHPUnit"
  ELSE IF lang = "C#" THEN "xUnit or NUnit"
  ELSE "a testing framework"

totalFilesOf(input) == count(input.fileTree, LAMBDA f : f.type = "file")

totalDirsOf(input) == count(input.fileTree, LAMBDA f : f.type = "dir")

\* f.path.split(".").pop().toLowerCase(): what follows the last "." of the path
extensionOf(path) ==
  LET dots == {i \in 1..Len(path) : path[i] = "."}
      last == CHOOSE i \in dots : \A j \in dots : j <= i
  IN  toLowerCase(SubSeq(path, last + 1, Len(path)))

\* sortedExts[0]: the most frequent extension, the one met first among equals,
\* as (extension, count, index of its first file); count 0 when there is none
primaryExtension(input) ==
  LET tree == input.fileTree
      idx == {i \in 1..Len(tree) : tree[i].type = "file" /\ includes(tree[i].path, chars["."])
                                   /\ extensionOf(tree[i].path) # << >>}
      n(i) == Cardinality({j \in idx : extensionOf(tree[j].path) = extensionOf(tree[i].path)})
      firsts == {i \in idx : \A j \in idx : extensionOf(tree[j].path) = extensionOf(tree[i].path) => i <= j}
  IN  IF idx = {} THEN [ext |-> << >>, n |-> 0]
      ELSE LET best == CHOOSE i \in firsts :
                         \A j \in firsts : n(j) < n(i) \/ (n(j) = n(i) /\ i <= j)
           IN  [ext |-> extensionOf(tree[best].path), n |-> n(best)]

\* Math.round(a / b * 100) for b > 0
percent(a, b) == (200 * a + b) \div (2 * b)

\* the testing rule that warns up to and including 10%: testFiles.length <= totalFiles * 0.1
testingInsightsWarningAtTenPercent(input) ==
  LET lang == primaryLanguage(input)
      totalFiles == totalFilesOf(input)
      testFiles == count(input.fileTree,
                         LAMBDA f : f.type = "file"
                                    /\ (includes(f.path, chars["test"]) \/ includes(f.path, chars["spec"])
                                        \/ includes(f.path, chars["__tests__"])))
  IN  IF ~input.hasTests
      THEN << insight("testing", "critical", "No Test Suite Detected",
                      <<totalFiles, Len(input.contributors)>>, <<lang, testFrameworkFor(lang)>>) >>
      ELSE IF 10 * testFiles <= totalFiles
      THEN << insight("testing", "warning", "Low Test Coverage Indication",
                      <<testFiles, totalFiles>>, << >>) >>
      ELSE << insight("testing", "success", "Test Suite Present", <<testFiles>>, <<lang>>) >>

testingInsights(input) ==
  LET lang == primaryLanguage(input)
      totalFiles == totalFilesOf(input)
      testFiles == count(input.fileTree,
                         LAMBDA f : f.type = "file"
                                    /\ (includes(f.path, chars["test"]) \/ includes(f.path, chars["spec"])
                                        \/ includes(f.path, chars["__tests__"])))
  IN  IF ~input.hasTests
      THEN << insight("testing", "critical", "No Test Suite Detected",
                      <<totalFiles, Len(input.contributors)>>, <<lang, testFrameworkFor(lang)>>) >>
      ELSE IF 10 * testFiles < totalFiles
      THEN << insight("testing", "warning", "Low Test Coverage Indication",
                      <<testFiles, totalFiles>>, << >>) >>
      ELSE << insight("testing", "success", "Test Suite Present", <<testFiles>>, <<lang>>) >>

cicdInsights(input) ==
  IF ~input.hasCICD
  THEN << insight("architecture", "warning", "No CI/CD Pipeline Configured",
                  <<Len(input.contributors), input.repo.forks>>, << >>) >>
  ELSE << insight("architecture", "success", "CI/CD Pipeline Active", << >>, << >>) >>

licenseInsights(input) ==
  IF ~input.hasLicense
  THEN << insight("documentation", "critical", "Missing License File",
                  <<input.repo.stars, input.repo.forks>>, << >>) >>
  ELSE << >>

documentationInsights(input, scores) ==
  LET missingDocs ==
        (IF ~readmeTruthy(input.readme) \/ readmeLength(input.readme) < 200
         THEN <<"comprehensive README">> ELSE << >>)
        \o (IF ~input.hasContributing THEN <<"CONTRIBUTING.md">> ELSE << >>)
        \o (IF ~input.hasChangelog THEN <<"CHANGELOG.md">> ELSE << >>)
  IN  IF scores.documentation < 50
      THEN << insight("documentation",
                      IF scores.documentation < 30 THEN "critical" ELSE "warning",
                      "Documentation Below Standards", <<scores.documentation>>,
                      IF missingDocs = << >> THEN <<"key sections in existing docs">> ELSE missingDocs) >>
      ELSE IF scores.documentation >= 70
      THEN << insight("documentation", "success", "Good Documentation",
                      <<scores.documentation>>, << >>) >>
      ELSE << >>

securityInsights(input, scores) ==
  LET secIssues ==
        (IF ~input.hasEnvExample THEN <<"no .env.example for secret management">> ELSE << >>)
        \o (IF ~input.hasGitignore
            THEN <<"missing .gitignore (risk of committing secrets)">> ELSE << >>)
  IN  IF scores.security < 60
      THEN << insight("security",
                      IF scores.security < 40 THEN "critical" ELSE "warning",
                      "Security Practices Need Attention", <<scores.security>>,
                      IF secIssues = << >> THEN <<"review security configuration">> ELSE secIssues) >>
      ELSE << >>

\* the rule that asks for more than 200 files instead of more than 100
structureInsightsAboveTwoHundred(input) ==
  IF totalFilesOf(input) > 200 /\ totalDirsOf(input) < 5
  THEN << insight("architecture", "warning", "Flat Project Structure",
                  <<totalFilesOf(input), totalDirsOf(input)>>, << >>) >>
  ELSE << >>

structureInsights(input) ==
  IF totalFilesOf(input) > 100 /\ totalDirsOf(input) < 5
  THEN << insight("architecture", "warning", "Flat Project Structure",
                  <<totalFilesOf(input), totalDirsOf(input)>>, << >>) >>
  ELSE << >>

multiLanguageInsights(input) ==
  LET languages == input.repo.languages
  IN  IF Len(languages) > 5
      THEN << insight("architecture", "info", "Multi-Language Project", <<Len(languages)>>,
                      SubSeq(languages, 1, 4)) >>
      ELSE << >>

lockFileInsights(input) ==
  IF some(input.fileTree, LAMBDA f : f.path = chars["package.json"])
     /\ ~some(input.fileTree,
              LAMBDA f : f.path = chars["package-lock.json"] \/ f.path = chars["yarn.lock"]
                         \/ f.path = chars["pnpm-lock.yaml"])
  THEN << insight("dependencies", "warning", "No Lock File Detected", << >>, << >>) >>
  ELSE << >>

dockerInsights(input) ==
  IF ~input.hasDockerfile /\ totalFilesOf(input) > 20
  THEN << insight("architecture", "info", "No Containerization",
                  <<totalFilesOf(input)>>, <<primaryLanguage(input)>>) >>
  ELSE << >>

contributorInsights(input) ==
  IF Len(input.contributors) = 1
  THEN << insight("architecture", "info", "Solo Developer Project", <<input.repo.stars>>, << >>) >>
  ELSE IF Len(input.contributors) >= 5
  THEN << insight("architecture", "success", "Active Contributor Community",
                  <<Len(input.contributors)>>, << >>) >>
  ELSE << >>

compositionInsights(input) ==
  LET primary == primaryExtension(input)
  IN  IF primary.n > 0 /\ percent(primary.n, totalFilesOf(input)) > 80
      THEN << [insight("architecture", "info", "Primarily Files",
                       <<primary.n, totalFilesOf(input)>>, << >>) EXCEPT !.ext = primary.ext] >>
      ELSE << >>

overallInsights(scores) ==
  IF scores.overall >= 80
  THEN << insight("architecture", "success", "Well-Maintained Repository", <<scores.overall>>, << >>) >>
  ELSE IF scores.overall >= 60
  THEN << insight("architecture", "info", "Solid Foundation with Room to Grow",
                  <<scores.overall>>, << >>) >>
  ELSE << >>

\* the suggestions the rules push, in rule order
ruleSuggestions(input, scores) ==
  (IF ~input.hasTests
   THEN << suggestion("Implement automated testing", 0, testFrameworkFor(primaryLanguage(input))) >>
   ELSE << >>)
  \o (IF ~input.hasCICD THEN << suggestion("Set up GitHub Actions CI/CD", 0, "") >> ELSE << >>)
  \o (IF scores.documentation < 50
      THEN << suggestion("Improve documentation", scores.documentation, "") >> ELSE << >>)
  \o (IF scores.security < 60
      THEN << suggestion("Address security concerns", scores.security, "") >> ELSE << >>)

contextSuggestions(input) ==
  << IF input.repo.stars > 50
     THEN suggestion("Add a code of conduct for your growing community.", 0, "")
     ELSE suggestion("Add badges and screenshots to README to attract more contributors.", 0, ""),
     IF totalFilesOf(input) > 50
     THEN suggestion("Consider adding architectural documentation (diagrams, module overview).", 0, "")
     ELSE suggestion("Add inline code comments for complex logic.", 0, ""),
     IF ~input.hasDockerfile
     THEN suggestion("Containerize the application with Docker for portable deployment.", 0, "")
     ELSE suggestion("Add health check endpoints for production monitoring.", 0, ""),
     IF some(input.repo.languages, LAMBDA l : l = "TypeScript")
        \/ some(input.repo.languages, LAMBDA l : l = "JavaScript")
     THEN suggestion("Set up pre-commit hooks with Husky for linting and formatting.", 0, "")
     ELSE suggestion("Add pre-commit hooks for automated code quality checks.", 0, ""),
     IF Len(input.contributors) > 1
     THEN suggestion("Create pull request templates to standardize code review.", 0, "")
     ELSE suggestion("Document your development workflow for future collaborators.", 0, ""),
     suggestion("Set up code coverage reporting and aim for at least 70% coverage.", 0, ""),
     suggestion("Add performance benchmarks for critical code paths.", 0, "") >>

\* the suggestions left as the rules pushed them, with no backfill
withoutBackfill(suggestions, context, k) == suggestions

\* for (const s of contextSuggestions): stop at 5, push what is not there yet
RECURSIVE fillSuggestions(_, _, _)
fillSuggestions(suggestions, context, k) ==
  IF k > Len(context) \/ Len(suggestions) >= 5 THEN suggestions
  ELSE fillSuggestions(IF some(suggestions, LAMBDA s : s = context[k]) THEN suggestions
                       ELSE Append(suggestions, context[k]),
                       context, k + 1)

\* seq.slice(0, n)
slice(seq, n) == SubSeq(seq, 1, IF Len(seq) < n THEN Len(seq) ELSE n)

healthLabelOf(overall) ==
  IF overall >= 85 THEN "excellent"
  ELSE IF overall >= 70 THEN "good"
  ELSE IF overall >= 50 THEN "fair"
  ELSE "needs improvement"

strengthAreasOf(scores) ==
  (IF scores.codeQuality >= 70 THEN <<"code quality">> ELSE << >>)
  \o (IF scores.architecture >= 70 THEN <<"architecture">> ELSE << >>)
  \o (IF scores.documentation >= 70 THEN <<"documentation">> ELSE << >>)
  \o (IF scores.security >= 70 THEN <<"security">> ELSE << >>)
  \o (IF scores.bestPractices >= 70 THEN <<"best practices">> ELSE << >>)

weakAreasOf(scores) ==
  (IF scores.codeQuality < 50 THEN <<"code quality">> ELSE << >>)
  \o (IF scores.architecture < 50 THEN <<"architecture">> ELSE << >>)
  \o (IF scores.documentation < 50 THEN <<"documentation">> ELSE << >>)
  \o (IF scores.security < 50 THEN <<"security">> ELSE << >>)
  \o (IF scores.bestPractices < 50 THEN <<"best practices">> ELSE << >>)

\* the summary paragraph, as the values its template interpolates
fallbackSummary(input, scores) ==
  [kind |-> "fallback",
   fullName |-> input.repo.fullName,
   lang |-> primaryLanguage(input),
   totalFiles |-> totalFilesOf(input),
   contributors |-> Len(input.contributors),
   overall |-> scores.overall,
   healthLabel |-> healthLabelOf(scores.overall),
   strengthAreas |-> strengthAreasOf(scores),
   weakAreas |-> weakAreasOf(scores)]

generateFallbackInsights(input, scores) ==
  LET insights == testingInsights(input)
                  \o cicdInsights(input)
                  \o licenseInsights(input)
                  \o documentationInsights(input, scores)
                  \o securityInsights(input, scores)
                  \o structureInsights(input)
                  \o multiLanguageInsights(input)
                  \o lockFileInsights(input)
                  \o dockerInsights(input)
                  \o contributorInsights(input)
                  \o compositionInsights(input)
                  \o overallInsights(scores)
      pushed == ruleSuggestions(input, scores)
      suggestions == IF Len(pushed) < 5
                     THEN fillSuggestions(pushed, contextSuggestions(input), 1)
                     ELSE pushed
  IN  [summary |-> fallbackSummary(input, scores),
       suggestions |-> slice(suggestions, 5),
       insights |-> slice(insights, 8)]

(***************************************************************************)
(* AI ENHANCEMENT (Gemini).  What the provider call ends with:             *)
(*   throws    generateContent rejects (network failure, non-2xx, SDK)     *)
(*   noBraces  a text in which /\{[\s\S]*\}/ finds nothing                 *)
(*   badJson   a text with braces on which JSON.parse throws               *)
(*   json      a text that parses to an object with                        *)
(*               summary     "absent", "empty" or "text"                   *)
(*               suggestions -1 (absent) or the length of the array        *)
(*               insights    "absent", "array" (of nInsights objects),     *)
(*                           "notArray" (a truthy value without .map) or   *)
(*                           "hasNull" (an array with a null element)      *)
(***************************************************************************)
providerSummary(kind) ==
  [kind |-> kind, fullName |-> "", lang |-> "", totalFiles |-> 0, contributors |-> 0,
   overall |-> 0, healthLabel |-> "", strengthAreas |-> << >>, weakAreas |-> << >>]

providerSuggestions(n) == [i \in 1..n |-> suggestion("provider suggestion", i, "")]

providerInsights(n) == [i \in 1..n |-> insight("provider", "info", "provider insight", <<i>>, << >>)]

withAiPowered(r, flag) ==
  [summary |-> r.summary, suggestions |-> r.suggestions, insights |-> r.insights,
   aiPowered |-> flag]

\* getAIInsights without GEMINI_API_KEY
getAIInsightsNoKey(input, scores) == withAiPowered(generateFallbackInsights(input, scores), FALSE)

\* getAIInsights from the end of `await model.generateContent(prompt)` on
getAIInsightsAfter(input, scores, response) ==
  IF response.kind \in {"throws", "noBraces", "badJson"}
     \/ response.insights \in {"notArray", "hasNull"}
  THEN withAiPowered(generateFallbackInsights(input, scores), FALSE)
  ELSE [summary |-> IF response.summary = "text" THEN providerSummary("provider")
                    ELSE providerSummary("Analysis complete."),
        suggestions |-> IF response.suggestions < 0 THEN << >>
                        ELSE providerSuggestions(response.suggestions),
        insights |-> IF response.insights = "absent" THEN << >>
                     ELSE providerInsights(response.nInsights),
        aiPowered |-> TRUE]

(***************************************************************************)
(* MAIN ANALYSIS FUNCTION.                                                 *)
(***************************************************************************)
\* Math.round of the weighted sum.  Every dimension score is a multiple of 5, so every
\* product is a multiple of 0.25 below 2^7 and the double arithmetic of the code is
\* exact; the sum is kept in hundredths.
weightedSum100(s) ==
  s.codeQuality * 20 + s.architecture * 15 + s.documentation * 15 + s.security * 15
  + s.bestPractices * 10 + s.communityHealth * 10 + s.productionReadiness * 15

\* Math.floor in the place of Math.round
mathFloor100(x100) == x100 \div 100

mathRound100(x100) == (x100 + 50) \div 100

\* Phase 1 of analyzeRepository: the ScoreBreakdown
computeScores(input, today) ==
  LET dims == [codeQuality |-> calculateCodeQualityScore(input),
               architecture |-> calculateArchitectureScore(input),
               documentation |-> calculateDocumentationScore(input),
               security |-> calculateSecurityScore(input),
               bestPractices |-> calculateBestPracticesScore(input),
               communityHealth |-> calculateCommunityHealthScore(input, today),
               productionReadiness |-> calculateProductionReadinessScore(input)]
  IN  [codeQuality |-> dims.codeQuality,
       architecture |-> dims.architecture,
       documentation |-> dims.documentation,
       security |-> dims.security,
       bestPractices |-> dims.bestPractices,
       communityHealth |-> dims.communityHealth,
       productionReadiness |-> dims.productionReadiness,
       overall |-> mathRound100(weightedSum100(dims))]

complexityLevelOf(totalFiles) ==
  IF totalFiles > 500 THEN "very-high"
  ELSE IF totalFiles > 100 THEN "high"
  ELSE IF totalFiles > 30 THEN "medium"
  ELSE "low"

estimatedTeamSizeOf(n) ==
  IF n >= 10 THEN "Large team (10+)"
  ELSE IF n >= 5 THEN "Medium team (5-10)"
  ELSE IF n >= 2 THEN "Small team (2-4)"
  ELSE "Solo developer"

\* the health label without the "fair" tier
repoHealthOfWithoutFair(overall) ==
  IF overall >= 85 THEN "excellent"
  ELSE IF overall >= 70 THEN "good"
  ELSE IF overall >= 30 THEN "needs-work"
  ELSE "critical"

repoHealthOf(overall) ==
  IF overall >= 85 THEN "excellent"
  ELSE IF overall >= 70 THEN "good"
  ELSE IF overall >= 50 THEN "fair"
  ELSE IF overall >= 30 THEN "needs-work"
  ELSE "critical"

\* an assembly that takes the missing files for settled once the provider has answered
assembleResultTrustingProvider(input, s, aiResults, clock) ==
  [scores |-> s,
   insights |-> aiResults.insights,
   techStack |-> detectTechStack(input),
   missingFiles |-> IF aiResults.aiPowered THEN << >> ELSE detectMissingFiles(input),
   aiSummary |-> aiResults.summary,
   aiSuggestions |-> aiResults.suggestions,
   readmeScore |-> s.documentation,
   complexityLevel |-> complexityLevelOf(totalFilesOf(input)),
   estimatedTeamSize |-> estimatedTeamSizeOf(Len(input.contributors)),
   repoHealth |-> repoHealthOf(s.overall),
   analyzedAt |-> clock,
   aiPowered |-> aiResults.aiPowered]

\* Phase 3 of analyzeRepository and the AnalysisResult it returns
assembleResult(input, s, aiResults, clock) ==
  [scores |-> s,
   insights |-> aiResults.insights,
   techStack |-> detectTechStack(input),
   missingFiles |-> detectMissingFiles(input),
   aiSummary |-> aiResults.summary,
   aiSuggestions |-> aiResults.suggestions,
   readmeScore |-> s.documentation,
   complexityLevel |-> complexityLevelOf(totalFilesOf(input)),
   estimatedTeamSize |-> estimatedTeamSizeOf(Len(input.contributors)),
   repoHealth |-> repoHealthOf(s.overall),
   analyzedAt |-> clock,
   aiPowered |-> aiResults.aiPowered]

(***************************************************************************)
(* State: one snapshot, analysed by the calls of Calls; each call is an    *)
(* invocation of analyzeRepository, suspended at most once, at the await   *)
(* of the provider.                                                        *)
(***************************************************************************)
VARIABLES
  input,      \* the GitHubAnalysisInput the calls are given
  now,        \* Date.now(), in days
  pc,         \* per call: "idle", "awaiting" (the provider) or "done"
  apiKey,     \* per call: whether process.env.GEMINI_API_KEY was set when it began
  startedAt,  \* per call: the clock when it began
  scores,     \* per call: the ScoreBreakdown of phase 1
  outcome,    \* per call: what the provider call ended with (kind "none": not yet, or no call)
  result      \* per call: the AnalysisResult returned

\* The server around the engine: its clock and the module-level AnalysisCache.
VARIABLES
  clock,      \* Date.now() of the server, in ticks
  cache,      \* AnalysisCache.cache: the Map, a function from the keys present to entries
  lastSet,    \* per key ever set: the arguments and the time of the latest set
  removed,    \* the keys deleted or cleared since their latest set
  returned    \* what the latest get, has or size answered

\* POST /api/analyze: the module-level rateLimitMap, the Analysis collection and the
\* requests being handled, each suspended at an await of the handler.
VARIABLES
  rateLimitMap,  \* per client ip seen: count and resetAt
  admitted,      \* per client ip: the times at which checkRateLimit admitted a request
  analyses,      \* the Analysis collection: per repoFullName saved, the document
  fetches,       \* the calls of fetchRepoData begun: the cache key and the time of each
  rpc,           \* per request: the await at which the handler is suspended
  request,       \* per request: its ip and repoUrl, and the analysis once computed
  reply          \* per request: the response returned

\* /api/reviews and /api/admin/reviews: the Review collection and the requests on it.
VARIABLES
  reviews,     \* the Review collection: per _id, email, createdAt and status
  posting,     \* per submission: the await at which POST is suspended, its email, its answer
  answer       \* the latest answer to GET, PATCH or DELETE: its status, and the _ids of a GET

engineVars == <<input, now, pc, apiKey, startedAt, scores, outcome, result>>

VARIABLES
  mongooseCache,  \* global.mongoose, the MongooseCache: conn and promise
  attempts,       \* the promises mongoose.connect(...).then(...) made so far: the state of each
  waiters,        \* per attempt: the calls suspended at `await cached.promise`, in order
  jobs,           \* the microtask queue: calls about to be made and continuations to resume
  connecting      \* per call of connectDB: where it is, the promise it awaits, what it got

reviewVars == <<reviews, posting, answer>>

connectVars == <<mongooseCache, attempts, waiters, jobs, connecting>>

cacheVars == <<cache, lastSet, removed, returned>>

routeVars == <<rateLimitMap, admitted, analyses, fetches, rpc, request, reply>>

serverVars == <<clock, cacheVars, routeVars, reviewVars, connectVars>>

outsideCache == <<engineVars, routeVars, reviewVars, connectVars>>

outsideRoute == <<engineVars, lastSet, removed, returned, reviewVars, connectVars>>

outsideReviews == <<engineVars, cacheVars, routeVars, connectVars>>

outsideConnect == <<engineVars, clock, cacheVars, routeVars, reviewVars>>

vars == <<engineVars, serverVars>>

Calls == {1, 2}

MaxTicks == 1
MaxProviderSuggestions == 6
MaxProviderInsights == 9

noScores ==
  [codeQuality |-> -1, architecture |-> -1, documentation |-> -1, security |-> -1,
   bestPractices |-> -1, communityHealth |-> -1, productionReadiness |-> -1, overall |-> -1]

noResult ==
  [scores |-> noScores, insights |-> << >>, techStack |-> << >>, missingFiles |-> << >>,
   aiSummary |-> providerSummary("none"), aiSuggestions |-> << >>, readmeScore |-> -1,
   complexityLevel |-> "", estimatedTeamSize |-> "", repoHealth |-> "", analyzedAt |-> -1,
   aiPowered |-> FALSE]

noResponse ==
  [kind |-> "none", summary |-> "absent", suggestions |-> -1, insights |-> "absent",
   nInsights |-> 0]

Responses ==
  [kind : {"throws", "noBraces", "badJson"}, summary : {"absent"}, suggestions : {-1},
   insights : {"absent"}, nInsights : {0}]
  \cup [kind : {"json"}, summary : {"absent", "empty", "text"}, suggestions : {-1},
        insights : {"absent"}, nInsights : {0}]
  \cup [kind : {"json"}, summary : {"text"}, suggestions : {-1},
        insights : {"notArray", "hasNull"}, nInsights : {0}]
  \cup {[kind |-> "json", summary |-> "text", suggestions |-> n[1], insights |-> "array",
         nInsights |-> n[2]] :
          n \in {<<0, 0>>, <<5, 8>>, <<MaxProviderSuggestions, MaxProviderInsights>>}}

DayTicks == 2     \* the ticks of 24 hours
MaxClock == 3     \* the last tick of the clock

emptyMap == [k \in {} |-> {}]

\* `undefined` and `null` are the empty tuple, a value v that is present is <<v>>
null == << >>

noAnswer == [op |-> "none", key |-> null, value |-> null]

Requests == {1, 2}

nothingReceived == [ip |-> "", repoUrl |-> null, analysis |-> null]

nothingSent == [status |-> 0, body |-> null]

Submissions == {1, 2}

noReviewAnswer == [to |-> "none", status |-> 0, reviews |-> {}]

notPosting == [at |-> "idle", email |-> null, doc |-> null, status |-> 0]

Callers == {1, 2, 3, 4}

notCalled == [at |-> "idle", on |-> null, got |-> null]

\* the server before its first request: `new Map()` in the cache and in the rate limiter,
\* an empty database
ServerIdle ==
  /\ clock = 0
  /\ cache = emptyMap
  /\ lastSet = emptyMap
  /\ removed = {}
  /\ returned = noAnswer
  /\ rateLimitMap = emptyMap
  /\ admitted = emptyMap
  /\ analyses = emptyMap
  /\ fetches = << >>
  /\ rpc = [r \in Requests |-> "idle"]
  /\ request = [r \in Requests |-> nothingReceived]
  /\ reply = [r \in Requests |-> nothingSent]
  /\ reviews = emptyMap
  /\ posting = [s \in Submissions |-> notPosting]
  /\ answer = noReviewAnswer
  /\ mongooseCache = [conn |-> null, promise |-> null]
  /\ attempts = << >>
  /\ waiters = << >>
  /\ jobs = << >>
  /\ connecting = [c \in Callers |-> notCalled]

InitCalls ==
  /\ ServerIdle
  /\ now = 0
  /\ pc = [c \in Calls |-> "idle"]
  /\ apiKey = [c \in Calls |-> FALSE]
  /\ startedAt = [c \in Calls |-> -1]
  /\ scores = [c \in Calls |-> noScores]
  /\ outcome = [c \in Calls |-> noResponse]
  /\ result = [c \in Calls |-> noResult]

\* The calls share no state and are interchangeable: they are numbered in the order
\* in which they begin.
mayBegin(c) == pc[c] = "idle" /\ \A d \in Calls : d < c => pc[d] # "idle"

\* analyzeRepository up to its return when no key is set: getAIInsights answers at once
AnalyzeWithoutKey(c) ==
  /\ mayBegin(c)
  /\ LET s == computeScores(input, now)
     IN  /\ scores' = [scores EXCEPT ![c] = s]
         /\ result' = [result EXCEPT ![c] =
                         assembleResult(input, s, getAIInsightsNoKey(input, s), now)]
  /\ apiKey' = [apiKey EXCEPT ![c] = FALSE]
  /\ startedAt' = [startedAt EXCEPT ![c] = now]
  /\ pc' = [pc EXCEPT ![c] = "done"]
  /\ UNCHANGED <<input, now, outcome>>
  /\ UNCHANGED serverVars

\* analyzeRepository up to `await model.generateContent(prompt)` when a key is set
AnalyzeWithKey(c) ==
  /\ mayBegin(c)
  /\ scores' = [scores EXCEPT ![c] = computeScores(input, now)]
  /\ apiKey' = [apiKey EXCEPT ![c] = TRUE]
  /\ startedAt' = [startedAt EXCEPT ![c] = now]
  /\ pc' = [pc EXCEPT ![c] = "awaiting"]
  /\ UNCHANGED <<input, now, outcome, result>>
  /\ UNCHANGED serverVars

\* the provider call ends and analyzeRepository runs to its return
ProviderResponds(c) ==
  /\ pc[c] = "awaiting"
  /\ \E response \in Responses :
       /\ outcome' = [outcome EXCEPT ![c] = response]
       /\ result' = [result EXCEPT ![c] =
                       assembleResult(input, scores[c],
                                      getAIInsightsAfter(input, scores[c], response), now)]
  /\ pc' = [pc EXCEPT ![c] = "done"]
  /\ UNCHANGED <<input, now, apiKey, startedAt, scores>>
  /\ UNCHANGED serverVars

\* a day passes
Tick ==
  /\ now < MaxTicks
  /\ now' = now + 1
  /\ UNCHANGED <<input, pc, apiKey, startedAt, scores, outcome, result>>
  /\ UNCHANGED serverVars

(***************************************************************************)
(* The snapshots the calls are given.  The presence flags are inputs of    *)
(* the engine, so they vary independently of the file tree.                *)
(***************************************************************************)
dir(s) == [path |-> chars[s], type |-> "dir"]

file(s) == [path |-> chars[s], type |-> "file"]

treeGroups ==
  << [i \in 1..Len(goodDirs) |-> dir(goodDirs[i])],
     << dir("frontend"), dir("backend") >>,
     << dir("src/utils"), file("src/index.ts"), file("src/logger.ts"),
        file("src/middleware/error.ts") >>,
     << file("a.md"), file("b.md"), file("c.md"), file("d.md"), file("e.md"), file("f.md"), file("g.md"), file("h.md"),
        file("i.md"), file("j.md"), file("k.md"), file("l.md"), file("m.md"), file("n.md"), file("o.md"), file("p.md") >>,
     << file(".env") >>,
     << file("SECURITY.md"), file("package-lock.json") >>,
     << file("package.json"), file(".eslintrc.json"), file("lib/util.pyi") >>,
     << file("docs/guide.md"), file("tests/app.test.ts"), file(".github/workflows/ci.yml") >>,
     << file("Dockerfile"), file("docker-compose.yml"), file("svelte.config.js"),
        file("next.config.js"), file(".env.example"), file("main.go") >> >>

\* the groups of S, concatenated in the order of treeGroups
RECURSIVE treeOf(_, _)
treeOf(S, k) ==
  IF k > Len(treeGroups) THEN << >>
  ELSE (IF k \in S THEN treeGroups[k] ELSE << >>) \o treeOf(S, k + 1)

Trees == {treeOf(S, 1) : S \in SUBSET (1..Len(treeGroups))}

FewTrees == {treeOf(S, 1) : S \in {{}, {3}, {4, 5}, {1, 3, 6, 7, 8, 9}}}

nullReadme == [isNull |-> TRUE, text |-> << >>, filler |-> 0]

readmeOf(s, filler) == [isNull |-> FALSE, text |-> chars[s], filler |-> filler]

readmeTexts ==
  {"Installation and Usage", "Getting Started: see the Example",
   "API Documentation, Contributing, License, badges by shields.io",
   "Built with React, Vue, PostgreSQL, MongoDB and Redis on AWS, Vercel, Netlify",
   "Svelte app"}

Readmes ==
  {nullReadme, [isNull |-> FALSE, text |-> << >>, filler |-> 0]}
  \cup {readmeOf(s, n) : s \in readmeTexts, n \in {0, 100, 500, 2000}}

FewReadmes ==
  {nullReadme, readmeOf("Installation and Usage", 2000),
   readmeOf("API Documentation, Contributing, License, badges by shields.io", 100)}

Flags ==
  [hasLicense : BOOLEAN, hasContributing : BOOLEAN, hasChangelog : BOOLEAN, hasCICD : BOOLEAN,
   hasTests : BOOLEAN, hasEnvExample : BOOLEAN, hasDockerfile : BOOLEAN, hasGitignore : BOOLEAN]

noFlags ==
  [hasLicense |-> FALSE, hasContributing |-> FALSE, hasChangelog |-> FALSE, hasCICD |-> FALSE,
   hasTests |-> FALSE, hasEnvExample |-> FALSE, hasDockerfile |-> FALSE, hasGitignore |-> FALSE]

allFlags ==
  [hasLicense |-> TRUE, hasContributing |-> TRUE, hasChangelog |-> TRUE, hasCICD |-> TRUE,
   hasTests |-> TRUE, hasEnvExample |-> TRUE, hasDockerfile |-> TRUE, hasGitignore |-> TRUE]

MaxContributors == 10

issue(state, isPR) == [state |-> state, isPR |-> isPR]

IssueLists ==
  { << >>,
    << issue("closed", FALSE), issue("open", FALSE) >>,
    << issue("closed", FALSE), issue("closed", FALSE), issue("open", FALSE), issue("closed", TRUE) >>,
    << issue("closed", TRUE), issue("closed", TRUE), issue("open", FALSE) >> }

Communities ==
  [contributors : 0..MaxContributors, stars : {0, 1, 10, 100}, forks : {0},
   issues : IssueLists, pushedAt : {0, -6, -7, -30, -90}, topics : {<< >>, <<"analysis">>}]

quietCommunity ==
  [contributors |-> 0, stars |-> 0, forks |-> 0, issues |-> << >>, pushedAt |-> -90,
   topics |-> << >>]

busyCommunity ==
  [contributors |-> 6, stars |-> 150, forks |-> 12,
   issues |-> << issue("closed", FALSE), issue("closed", FALSE), issue("open", FALSE) >>,
   pushedAt |-> -6, topics |-> <<"analysis">>]

LanguageLists ==
  { << >>, <<"TypeScript">>, <<"Svelte", "TypeScript">>, <<"TypeScript", "Svelte">>,
    <<"Go", "React", "MongoDB">>, <<"Docker", "dotenv", "Python">> }

snapshot(flags, tree, readme, community, languages) ==
  [repo |-> [fullName |-> "octo/repo",
             language |-> IF languages = << >> THEN "" ELSE languages[1],
             languages |-> languages,
             stars |-> community.stars,
             forks |-> community.forks,
             pushedAt |-> community.pushedAt,
             topics |-> community.topics],
   contributors |-> [i \in 1..community.contributors |-> i],
   issues |-> community.issues,
   fileTree |-> tree,
   readme |-> readme,
   hasLicense |-> flags.hasLicense,
   hasContributing |-> flags.hasContributing,
   hasChangelog |-> flags.hasChangelog,
   hasCICD |-> flags.hasCICD,
   hasTests |-> flags.hasTests,
   hasEnvExample |-> flags.hasEnvExample,
   hasDockerfile |-> flags.hasDockerfile,
   hasGitignore |-> flags.hasGitignore]

\* the well-maintained repository: tests/, .github/workflows/ci.yml, LICENSE, .gitignore,
\* a README of 2000 characters with "installation" and "usage", 6 contributors,
\* 150 stars, pushed 2 days before the call, and none of the other files the flags stand for
wellMaintainedFlags ==
  [noFlags EXCEPT !.hasTests = TRUE, !.hasCICD = TRUE, !.hasLicense = TRUE, !.hasGitignore = TRUE]

wellMaintainedTree ==
  << dir("tests"), file("tests/app.test.ts"), dir(".github"), dir(".github/workflows"),
     file(".github/workflows/ci.yml"), file("LICENSE"), file(".gitignore"), file("README.md") >>

WellMaintainedSnapshots ==
  {snapshot(wellMaintainedFlags, wellMaintainedTree \o t,
            readmeOf("Installation and Usage", 2000 - Len(chars["Installation and Usage"])),
            [contributors |-> 6, stars |-> 150, forks |-> f, issues |-> i, pushedAt |-> -2,
             topics |-> tp],
            l) :
     t \in {<< >>, treeGroups[3], treeGroups[7], treeGroups[4] \o treeGroups[5]},
     f \in {0, 12}, i \in IssueLists,
     tp \in {<< >>, <<"analysis">>}, l \in {<< >>, <<"TypeScript">>}}

\* the empty repository: no files, no README, nobody and nothing, pushed at any time
EmptySnapshots ==
  {snapshot(noFlags, << >>, nullReadme,
            [contributors |-> 0, stars |-> 0, forks |-> 0, issues |-> << >>, pushedAt |-> p,
             topics |-> << >>],
            l) :
     p \in {0, -2, -6, -7, -30, -90, -365}, l \in {<< >>, <<"TypeScript">>}}

\* the decimal digits of n, as characters
digitChars == <<"0", "1", "2", "3", "4", "5", "6", "7", "8", "9">>

RECURSIVE digits(_)
digits(n) == IF n < 10 THEN << digitChars[n + 1] >> ELSE digits(n \div 10) \o << digitChars[(n % 10) + 1] >>

\* n files, the first half under src/ and the rest under lib/
manyFiles(n) ==
  [i \in 1..n |-> [path |-> (IF 2 * i <= n THEN chars["src/"] ELSE chars["lib/"])
                            \o digits(i) \o chars[".ts"],
                   type |-> "file"]]

\* trees of 200 files under the two top-level directories src and lib, with
\* no, two, four and five directory entries
LargeTrees ==
  {d \o manyFiles(200) :
     d \in { << >>,
             << dir("src"), dir("lib") >>,
             << dir("src"), dir("lib"), dir("src/a"), dir("src/b") >>,
             << dir("src"), dir("lib"), dir("src/a"), dir("src/b"), dir("src/c") >> }}

\* snapshots on which nine rules fire before the contributor rule: no tests, no CI, no
\* license, no documentation, weak security, a flat tree, six languages, package.json
\* without a lock file, no Dockerfile
sixLanguages == <<"TypeScript", "JavaScript", "Go", "Python", "Ruby", "Shell">>

CrowdedSnapshots ==
  {snapshot(noFlags, << file("package.json") >> \o t, nullReadme,
            [quietCommunity EXCEPT !.contributors = n], l) :
     t \in {<< dir("src"), dir("lib") >> \o manyFiles(200), manyFiles(30)},
     n \in {0, 1, 2, 5, 6}, l \in {<<"TypeScript">>, sixLanguages}}

\* trees in which the test-like files are exactly, and just under, a tenth of the files
TenthSnapshots ==
  {snapshot(f, manyFiles(n) \o << file("tests/app.test.ts") >>, nullReadme, quietCommunity,
            <<"Go">>) :
     f \in {noFlags, allFlags}, n \in {9, 10}}

\* every combination of a tracked .env file, a security policy and a lock file with
\* the two flags the security score reads
SecuritySnapshots ==
  {snapshot([noFlags EXCEPT !.hasGitignore = g, !.hasEnvExample = e],
            (IF 1 \in S THEN << file(".env") >> ELSE << >>)
            \o (IF 2 \in S THEN << file("SECURITY.md") >> ELSE << >>)
            \o (IF 3 \in S THEN << file("package-lock.json") >> ELSE << >>),
            nullReadme, quietCommunity, << >>) :
     g \in BOOLEAN, e \in BOOLEAN, S \in SUBSET {1, 2, 3}}

LargeSnapshots ==
  {snapshot(f, t, nullReadme, c, <<"TypeScript">>) :
     f \in {noFlags, allFlags}, t \in LargeTrees, c \in {quietCommunity, busyCommunity}}

\* the snapshots of the engine specification: every flag combination, every tree,
\* every README and every community, each against a few of the others
EngineSnapshots ==
  {snapshot(f, t, nullReadme, c, <<"TypeScript">>) :
     f \in Flags, t \in FewTrees, c \in {quietCommunity, busyCommunity}}
  \cup {snapshot(noFlags, t, readmeOf("Installation and Usage", 2000), busyCommunity, <<"Go">>) :
          t \in Trees}
  \cup {snapshot(f, << >>, r, c, << >>) :
          f \in {noFlags, allFlags}, r \in Readmes, c \in {quietCommunity, busyCommunity}}
  \cup {snapshot(noFlags, << >>, nullReadme, c, << >>) : c \in Communities}
  \cup {snapshot(noFlags, t, r, quietCommunity, l) :
          t \in {treeOf(S, 1) : S \in SUBSET {5, 8, 9}}, r \in Readmes, l \in LanguageLists}
  \cup WellMaintainedSnapshots
  \cup LargeSnapshots
  \cup CrowdedSnapshots
  \cup TenthSnapshots
  \cup SecuritySnapshots
  \cup EmptySnapshots

\* the snapshots of the specification of concurrent calls
CallSnapshots ==
  {snapshot(noFlags, t, nullReadme, c, <<"TypeScript">>) :
     t \in {<< >>, << file(".env"), file("src/index.ts") >>}, c \in {quietCommunity, busyCommunity}}
  \cup {snapshot(allFlags, t, readmeOf("Installation and Usage", 2000), c, <<"Go", "Svelte">>) :
          t \in {<< >>, << file(".env"), file("src/index.ts") >>},
          c \in {quietCommunity, busyCommunity}}

(***************************************************************************)
(* Specifications.                                                         *)
(***************************************************************************)
Init == input \in CallSnapshots /\ InitCalls

Next ==
  \/ \E c \in Calls : AnalyzeWithoutKey(c)
  \/ \E c \in Calls : AnalyzeWithKey(c)
  \/ \E c \in Calls : ProviderResponds(c)
  \/ Tick

Spec == Init /\ [][Next]_vars

\* The engine on its own: one call, no key, the rule engine and the fallback only
EngineInit == input \in EngineSnapshots /\ InitCalls

EngineNext == AnalyzeWithoutKey(1)

EngineSpec == EngineInit /\ [][EngineNext]_vars

\* Calls with a snapshot that violates the documented shape: a negative count.
MalformedSnapshots ==
  {snapshot(f, << >>, nullReadme, [quietCommunity EXCEPT !.stars = s, !.forks = k], << >>) :
     f \in Flags, s \in {-5, -1, 0}, k \in {-1, 0}}
  \ {snapshot(f, << >>, nullReadme, quietCommunity, << >>) : f \in Flags}

MalformedInit == input \in MalformedSnapshots /\ InitCalls

MalformedSpec == MalformedInit /\ [][EngineNext]_vars

\* Time passes.  Nothing makes the provider answer: the code sets no timer on the call.
FairSpec == Init /\ [][Next]_vars /\ WF_vars(Tick)

(***************************************************************************)
(* AnalysisCache (lib/cache.ts): a Map from keys to entries with a time to *)
(* live.  Its methods are synchronous: each is one step.                   *)
(***************************************************************************)
defaultTTL == DayTicks

\* getCacheKey: `analysis:${owner}/${repo}`.toLowerCase()
getCacheKey(owner, repo) == toLowerCase(chars["analysis:"] \o owner \o chars["/"] \o repo)

\* the entry that set stores: `ttlMs || this.defaultTTL` takes the default for undefined and for 0
CacheEntry(data, ttlMs, t) ==
  [data |-> data, timestamp |-> t,
   ttl |-> IF ttlMs = null \/ ttlMs[1] = 0 THEN defaultTTL ELSE ttlMs[1]]

cacheSet(m, key, data, ttlMs, t) ==
  [k \in DOMAIN m \cup {key} |-> IF k = key THEN CacheEntry(data, ttlMs, t) ELSE m[k]]

\* an expiry that already holds when exactly the time to live has passed
isExpiredAtTtl(e, t) == t - e.timestamp >= e.ttl

\* Date.now() - entry.timestamp > entry.ttl
isExpired(e, t) == t - e.timestamp > e.ttl

cacheDelete(m, key) == [k \in DOMAIN m \ {key} |-> m[k]]

\* what get returns
cacheGet(m, key, t) ==
  IF key \notin DOMAIN m \/ isExpired(m[key], t) THEN null ELSE <<m[key].data>>

\* the Map after get: an expired entry is deleted
cacheAfterGet(m, key, t) ==
  IF key \in DOMAIN m /\ isExpired(m[key], t) THEN cacheDelete(m, key) ELSE m

cacheCleanup(m, t) == [k \in {j \in DOMAIN m : ~isExpired(m[j], t)} |-> m[k]]

cacheSize(m) == Cardinality(DOMAIN m)

CacheOwners == {chars["octo"], chars["Octo"]}
CacheRepos == {chars["app"], chars["lib"]}
CacheKeys == {getCacheKey(o, r) : o \in CacheOwners, r \in CacheRepos}
CacheData == {"first", "second"}
CacheTtls == {null, <<0>>, <<1>>}

Set(key, data, ttlMs) ==
  /\ cache' = cacheSet(cache, key, data, ttlMs, clock)
  /\ lastSet' = [k \in DOMAIN lastSet \cup {key} |->
                   IF k = key THEN [data |-> data, ttlMs |-> ttlMs, at |-> clock] ELSE lastSet[k]]
  /\ removed' = removed \ {key}
  /\ UNCHANGED <<clock, returned, outsideCache>>

Get(key) ==
  /\ returned' = [op |-> "get", key |-> key, value |-> cacheGet(cache, key, clock)]
  /\ cache' = cacheAfterGet(cache, key, clock)
  /\ UNCHANGED <<clock, lastSet, removed, outsideCache>>

\* has: `this.get(key) !== null`
Has(key) ==
  /\ returned' = [op |-> "has", key |-> key, value |-> <<cacheGet(cache, key, clock) # null>>]
  /\ cache' = cacheAfterGet(cache, key, clock)
  /\ UNCHANGED <<clock, lastSet, removed, outsideCache>>

Delete(key) ==
  /\ cache' = cacheDelete(cache, key)
  /\ removed' = removed \cup {key}
  /\ UNCHANGED <<clock, lastSet, returned, outsideCache>>

Clear ==
  /\ cache' = emptyMap
  /\ removed' = DOMAIN lastSet
  /\ UNCHANGED <<clock, lastSet, returned, outsideCache>>

Cleanup ==
  /\ cache' = cacheCleanup(cache, clock)
  /\ UNCHANGED <<clock, lastSet, removed, returned, outsideCache>>

Size ==
  /\ returned' = [op |-> "size", key |-> null, value |-> <<cacheSize(cache)>>]
  /\ UNCHANGED <<clock, cache, lastSet, removed, outsideCache>>

\* a tick of the server's clock passes
Advance ==
  /\ clock < MaxClock
  /\ clock' = clock + 1
  /\ UNCHANGED <<cacheVars, outsideCache>>

idleEngine == input = snapshot(noFlags, << >>, nullReadme, quietCommunity, << >>) /\ InitCalls

CacheInit == idleEngine

CacheNext ==
  \/ \E key \in CacheKeys, data \in CacheData, ttlMs \in CacheTtls : Set(key, data, ttlMs)
  \/ \E key \in CacheKeys : Get(key)
  \/ \E key \in CacheKeys : Has(key)
  \/ \E key \in CacheKeys : Delete(key)
  \/ Clear
  \/ Cleanup
  \/ Size
  \/ Advance

CacheSpec == CacheInit /\ [][CacheNext]_vars

(***************************************************************************)
(* POST /api/analyze.  The handler runs from one await to the next without *)
(* interruption; between two awaits of a request the other requests and    *)
(* the clock may move.                                                     *)
(***************************************************************************)
RATE_LIMIT_MAX == 2          \* process.env.RATE_LIMIT_MAX
RATE_LIMIT_WINDOW_MS == 2    \* process.env.RATE_LIMIT_WINDOW_MS, in ticks

\* whether checkRateLimit returns true
checkRateLimit(m, ip, t) ==
  \/ ip \notin DOMAIN m
  \/ t > m[ip].resetAt
  \/ m[ip].count < RATE_LIMIT_MAX

\* rateLimitMap after checkRateLimit
rateLimitMapAfter(m, ip, t) ==
  IF ip \notin DOMAIN m \/ t > m[ip].resetAt
  THEN [k \in DOMAIN m \cup {ip} |->
          IF k = ip THEN [count |-> 1, resetAt |-> t + RATE_LIMIT_WINDOW_MS] ELSE m[k]]
  ELSE IF m[ip].count >= RATE_LIMIT_MAX THEN m
  ELSE [m EXCEPT ![ip].count = @ + 1]

\* parseRepoUrl of "owner/repo": no surrounding blanks, no trailing slash, no github.com
parseRepoUrl(s) ==
  LET owner == splitFirst(s)
  IN  [owner |-> owner, repo |-> SubSeq(s, Len(owner) + 2, Len(s))]

\* `${owner}/${repo}`
repoFullNameOf(parsed) == parsed.owner \o chars["/"] \o parsed.repo

cacheKeyOf(repoUrl) == getCacheKey(parseRepoUrl(repoUrl).owner, parseRepoUrl(repoUrl).repo)

\* In a response body, a JSON string that stands where another response has an object
\* is the record [string |-> s].
jsonString(s) == [string |-> s]

errorBody(message) == [error |-> message]

\* the body of a cache hit, from the memory cache or from the database: the fields of
\* the AnalysisResult as they are (shareId and repoData are left out)
hitBody(parsed, r) ==
  [repoFullName |-> repoFullNameOf(parsed),
   overallScore |-> r.scores.overall,
   complexityLevel |-> r.complexityLevel,
   repoHealth |-> r.repoHealth,
   scores |-> r.scores,
   insights |-> r.insights,
   techStack |-> r.techStack,
   missingFiles |-> r.missingFiles,
   aiSummary |-> r.aiSummary,
   aiSuggestions |-> r.aiSuggestions,
   aiPowered |-> r.aiPowered,
   cached |-> TRUE]

complexityLabel(level) ==
  IF level = "very-high" THEN "Enterprise"
  ELSE IF level = "high" THEN "Advanced"
  ELSE IF level = "medium" THEN "Intermediate"
  ELSE "Starter"

\* the body of the response to the request that computed the analysis
freshBody(parsed, r) ==
  [repoFullName |-> repoFullNameOf(parsed),
   overallScore |-> r.scores.overall,
   complexityLevel |-> complexityLabel(r.complexityLevel),
   repoHealth |-> r.repoHealth,
   scores |-> r.scores,
   insights |-> [i \in 1..Len(r.insights) |->
                   [category |-> r.insights[i].category,
                    message |-> [title |-> r.insights[i].title, nums |-> r.insights[i].nums,
                                 words |-> r.insights[i].words, ext |-> r.insights[i].ext],
                    severity |-> r.insights[i].severity]],
   techStack |-> [i \in 1..Len(r.techStack) |-> jsonString(r.techStack[i].name)],
   missingFiles |-> [i \in 1..Len(r.missingFiles) |-> jsonString(r.missingFiles[i].name)],
   aiSummary |-> r.aiSummary,
   aiSuggestions |-> r.aiSuggestions,
   aiPowered |-> r.aiPowered,
   cached |-> FALSE]

\* the document that Analysis.findOneAndUpdate writes: the schema has no aiPowered
analysisDocument(r, t) ==
  [scores |-> r.scores, aiSummary |-> r.aiSummary, aiSuggestions |-> r.aiSuggestions,
   insights |-> r.insights, techStack |-> r.techStack, missingFiles |-> r.missingFiles,
   complexityLevel |-> r.complexityLevel, repoHealth |-> r.repoHealth,
   estimatedTeamSize |-> r.estimatedTeamSize, analyzedAt |-> t]

\* the AnalysisResult rebuilt from a document: `dbCached.aiPowered ?? false`
resultOfDocument(d) ==
  [scores |-> d.scores, insights |-> d.insights, techStack |-> d.techStack,
   missingFiles |-> d.missingFiles, aiSummary |-> d.aiSummary,
   aiSuggestions |-> d.aiSuggestions, readmeScore |-> d.scores.documentation,
   complexityLevel |-> d.complexityLevel, estimatedTeamSize |-> d.estimatedTeamSize,
   repoHealth |-> d.repoHealth, analyzedAt |-> d.analyzedAt, aiPowered |-> FALSE]

\* what fetchRepoData answers for the repository of the requests
fetchedSnapshot ==
  snapshot(wellMaintainedFlags, << dir("src"), file("src/index.ts"), file("package.json") >>,
           readmeOf("Installation and Usage", 2000), busyCommunity, <<"TypeScript">>)

providerAnswer ==
  [kind |-> "json", summary |-> "text", suggestions |-> 5, insights |-> "array", nInsights |-> 8]

\* analyzeRepository(githubData) on the day `today`, with and without the provider; the
\* snapshot, the scores and the provider's answer are each a value computed once
analysisOn ==
  [powered \in BOOLEAN |->
     [today \in 0..(MaxClock \div DayTicks) |->
        CHOOSE r \in UNION UNION
          {{{assembleResult(i, s, ai, today) :
               ai \in {IF powered THEN getAIInsightsAfter(i, s, providerAnswer)
                                  ELSE getAIInsightsNoKey(i, s)}} :
             s \in {computeScores(i, today)}} :
           i \in {fetchedSnapshot}} : TRUE]]

Ips == {"203.0.113.7", "unknown"}
RepoUrls == {chars["octo/app"], chars["Octo/app"]}

respond(r, status, body) ==
  /\ reply' = [reply EXCEPT ![r] = [status |-> status, body |-> body]]
  /\ rpc' = [rpc EXCEPT ![r] = "done"]

\* lines 54-69: a request arrives, checkRateLimit, up to `await req.json()`.  A new
\* request takes the lowest free number.
Receive(r, ip, repoUrl) ==
  /\ rpc[r] = "idle"
  /\ \A q \in Requests : q < r => rpc[q] # "idle"
  /\ request' = [request EXCEPT ![r] = [ip |-> ip, repoUrl |-> repoUrl, analysis |-> null]]
  /\ rateLimitMap' = rateLimitMapAfter(rateLimitMap, ip, clock)
  /\ IF checkRateLimit(rateLimitMap, ip, clock)
     THEN /\ admitted' = [k \in DOMAIN admitted \cup {ip} |->
                            IF k \in DOMAIN admitted
                            THEN IF k = ip THEN Append(admitted[k], clock) ELSE admitted[k]
                            ELSE <<clock>>]
          /\ rpc' = [rpc EXCEPT ![r] = "json"]
          /\ reply' = [reply EXCEPT ![r] = nothingSent]
     ELSE /\ respond(r, 429, errorBody("Too many requests. Please try again later."))
          /\ UNCHANGED admitted
  /\ UNCHANGED <<clock, cache, analyses, fetches, outsideRoute>>

\* lines 69-104: the body is read, the url parsed, the memory cache looked up
LookUpMemory(r) ==
  /\ rpc[r] = "json"
  /\ IF request[r].repoUrl = null
     THEN /\ respond(r, 400, errorBody("Repository URL is required"))
          /\ UNCHANGED cache
     ELSE LET key == cacheKeyOf(request[r].repoUrl[1])
              cached == cacheGet(cache, key, clock)
          IN  /\ cache' = cacheAfterGet(cache, key, clock)
              /\ IF cached # null
                 THEN respond(r, 200, hitBody(parseRepoUrl(request[r].repoUrl[1]), cached[1]))
                 ELSE /\ rpc' = [rpc EXCEPT ![r] = "findOne"]
                      /\ UNCHANGED reply
  /\ UNCHANGED <<clock, rateLimitMap, admitted, analyses, fetches, request, outsideRoute>>

\* lines 104-166: connectDB and Analysis.findOne answer, or one of them throws; on a
\* document not older than 24 hours the memory cache is warmed and the request answered,
\* else fetchRepoData is called
LookUpDatabase(r, available) ==
  /\ rpc[r] = "findOne"
  /\ LET parsed == parseRepoUrl(request[r].repoUrl[1])
         name == repoFullNameOf(parsed)
         key == cacheKeyOf(request[r].repoUrl[1])
     IN  IF available /\ name \in DOMAIN analyses /\ analyses[name].analyzedAt >= clock - DayTicks
         THEN /\ cache' = cacheSet(cache, key, resultOfDocument(analyses[name]), null, clock)
              /\ respond(r, 200, hitBody(parsed, resultOfDocument(analyses[name])))
              /\ UNCHANGED fetches
         ELSE /\ fetches' = Append(fetches, [key |-> key, at |-> clock])
              /\ rpc' = [rpc EXCEPT ![r] = "fetchRepoData"]
              /\ UNCHANGED <<cache, reply>>
  /\ UNCHANGED <<clock, rateLimitMap, admitted, analyses, request, outsideRoute>>

\* lines 166-169: fetchRepoData answers and analyzeRepository is called, or it throws
\* and the handler answers 500
FetchReturns(r, found) ==
  /\ rpc[r] = "fetchRepoData"
  /\ IF found
     THEN /\ rpc' = [rpc EXCEPT ![r] = "analyzeRepository"]
          /\ UNCHANGED reply
     ELSE respond(r, 500, errorBody("Repository not found"))
  /\ UNCHANGED <<clock, cache, rateLimitMap, admitted, analyses, fetches, request,
                 outsideRoute>>

\* lines 169-178: analyzeRepository answers, the analysis is put in the memory cache
AnalysisReturns(r, powered) ==
  /\ rpc[r] = "analyzeRepository"
  /\ \E analysis \in {analysisOn[powered][clock \div DayTicks]} :
       /\ request' = [request EXCEPT ![r].analysis = <<analysis>>]
       /\ cache' = cacheSet(cache, cacheKeyOf(request[r].repoUrl[1]), analysis, null, clock)
  /\ rpc' = [rpc EXCEPT ![r] = "save"]
  /\ UNCHANGED <<clock, rateLimitMap, admitted, analyses, fetches, reply, outsideRoute>>

\* lines 178-261: the document is saved, or the database throws, and the fresh result
\* is returned
SaveReturns(r, saved) ==
  /\ rpc[r] = "save"
  /\ LET parsed == parseRepoUrl(request[r].repoUrl[1])
         name == repoFullNameOf(parsed)
         body == freshBody(parsed, request[r].analysis[1])
     IN  /\ analyses' = IF saved
                        THEN [k \in DOMAIN analyses \cup {name} |->
                                IF k = name THEN analysisDocument(request[r].analysis[1], clock)
                                ELSE analyses[k]]
                        ELSE analyses
         /\ respond(r, 200, body)
  /\ UNCHANGED <<clock, cache, rateLimitMap, admitted, fetches, request, outsideRoute>>

\* a tick of the server's clock passes while requests are handled
Pass ==
  /\ clock < MaxClock
  /\ clock' = clock + 1
  /\ UNCHANGED <<cacheVars, routeVars, engineVars, reviewVars, connectVars>>

\* the response of a request was delivered: its number is free again
Forget(r) ==
  /\ rpc[r] = "done"
  /\ rpc' = [rpc EXCEPT ![r] = "idle"]
  /\ request' = [request EXCEPT ![r] = nothingReceived]
  /\ reply' = [reply EXCEPT ![r] = nothingSent]
  /\ UNCHANGED <<clock, cache, rateLimitMap, admitted, analyses, fetches, outsideRoute>>

RouteInit == idleEngine

RouteNext ==
  \/ \E r \in Requests, repoUrl \in {<<u>> : u \in RepoUrls} : Receive(r, "unknown", repoUrl)
  \/ \E r \in Requests : LookUpMemory(r)
  \/ \E r \in Requests, available \in BOOLEAN : LookUpDatabase(r, available)
  \/ \E r \in Requests, found \in BOOLEAN : FetchReturns(r, found)
  \/ \E r \in Requests, powered \in BOOLEAN : AnalysisReturns(r, powered)
  \/ \E r \in Requests, saved \in BOOLEAN : SaveReturns(r, saved)
  \/ Pass

\* two requests of one client for one repository, spelled in two ways
RouteSpec == RouteInit /\ [][RouteNext]_vars

\* The rate limiter under any number of requests: requests without a repoUrl, which the
\* handler answers 400 once checkRateLimit admitted them.
RateLimitNext ==
  \/ \E r \in Requests, ip \in Ips : Receive(r, ip, null)
  \/ \E r \in Requests : LookUpMemory(r)
  \/ \E r \in Requests : Forget(r)
  \/ Pass

RateLimitSpec == RouteInit /\ [][RateLimitNext]_vars

(***************************************************************************)
(* /api/reviews (GET, POST) and /api/admin/reviews (PATCH, DELETE).        *)
(***************************************************************************)
\* String.prototype.trim, for blanks
RECURSIVE trimStart(_)
trimStart(s) == IF s # << >> /\ Head(s) = " " THEN trimStart(Tail(s)) ELSE s

RECURSIVE trimEnd(_)
trimEnd(s) == IF s # << >> /\ s[Len(s)] = " " THEN trimEnd(SubSeq(s, 1, Len(s) - 1)) ELSE s

trim(s) == trimEnd(trimStart(s))

\* the _ids that Review.findOne({email: email.toLowerCase(), createdAt: {$gte: now - 24 h}})
\* matches
recentReviews(docs, email, t) ==
  {id \in DOMAIN docs :
     docs[id].email = toLowerCase(email) /\ docs[id].createdAt >= t - DayTicks}

\* the document of Review.create: `email.toLowerCase().trim()`, status "pending",
\* createdAt by the timestamps of the schema
newReview(email, t) == [email |-> trim(toLowerCase(email)), createdAt |-> t, status |-> "pending"]

\* every review, whatever its status
everyReview(docs) == DOMAIN docs

\* Review.find({status: "approved"})
publicReviews(docs) == {id \in DOMAIN docs : docs[id].status = "approved"}

\* the Authorization header: none, or a bearer token with a signature that jwt.verify
\* accepts or not, and the role it carries
Tokens ==
  {null, <<[signed |-> FALSE, role |-> "admin"]>>, <<[signed |-> TRUE, role |-> "user"]>>,
   <<[signed |-> TRUE, role |-> "admin"]>>}

verifyAdmin(auth) == auth # null /\ auth[1].signed /\ auth[1].role = "admin"

Emails == {chars["a@x.io"], chars["A@x.io"], chars[" a@x.io"], chars["b@x.io"]}

\* POST, lines 51-84: the body is read and validated (a missing email answers 400) and
\* Review.findOne is called
PostReview(s, email) ==
  /\ posting[s].at = "idle"
  /\ \A q \in Submissions : q < s => posting[q].at # "idle"
  /\ posting' = [posting EXCEPT ![s] =
                   IF email = null
                   THEN [at |-> "done", email |-> null, doc |-> null, status |-> 400]
                   ELSE [at |-> "findOne", email |-> email, doc |-> null, status |-> 0]]
  /\ UNCHANGED <<clock, reviews, answer, outsideReviews>>

\* POST, lines 81-105: findOne answers; with a recent review the answer is 429, else
\* Review.create is called
FindOneReturns(s) ==
  /\ posting[s].at = "findOne"
  /\ posting' = [posting EXCEPT ![s] =
                   IF recentReviews(reviews, posting[s].email[1], clock) # {}
                   THEN [notPosting EXCEPT !.at = "done", !.status = 429]
                   ELSE [@ EXCEPT !.at = "create",
                                  !.doc = <<newReview(posting[s].email[1], clock)>>]]
  /\ UNCHANGED <<clock, reviews, answer, outsideReviews>>

\* POST, lines 96-113: the review is inserted, its _id the number of the submission, and
\* the answer is 201
CreateReturns(s) ==
  /\ posting[s].at = "create"
  /\ reviews' = [k \in DOMAIN reviews \cup {s} |-> IF k = s THEN posting[s].doc[1] ELSE reviews[k]]
  /\ posting' = [posting EXCEPT ![s] = [notPosting EXCEPT !.at = "done", !.status = 201]]
  /\ UNCHANGED <<clock, answer, outsideReviews>>

\* GET /api/reviews
GetReviews ==
  /\ answer' = [to |-> "GET", status |-> 200, reviews |-> publicReviews(reviews)]
  /\ UNCHANGED <<clock, reviews, posting, outsideReviews>>

adminAnswers(method, status) == answer' = [to |-> method, status |-> status, reviews |-> {}]

\* PATCH /api/admin/reviews
Patch(auth, reviewId, status) ==
  /\ IF ~verifyAdmin(auth) THEN adminAnswers("PATCH", 401) /\ UNCHANGED reviews
     ELSE IF reviewId = null \/ status \notin {"approved", "rejected"}
     THEN adminAnswers("PATCH", 400) /\ UNCHANGED reviews
     ELSE IF reviewId[1] \notin DOMAIN reviews
     THEN adminAnswers("PATCH", 404) /\ UNCHANGED reviews
     ELSE /\ reviews' = [reviews EXCEPT ![reviewId[1]].status = status]
          /\ adminAnswers("PATCH", 200)
  /\ UNCHANGED <<clock, posting, outsideReviews>>

\* DELETE /api/admin/reviews
DeleteReview(auth, reviewId) ==
  /\ IF ~verifyAdmin(auth) THEN adminAnswers("DELETE", 401) /\ UNCHANGED reviews
     ELSE IF reviewId = null THEN adminAnswers("DELETE", 400) /\ UNCHANGED reviews
     ELSE /\ reviews' = [k \in DOMAIN reviews \ {reviewId[1]} |-> reviews[k]]
          /\ adminAnswers("DELETE", 200)
  /\ UNCHANGED <<clock, posting, outsideReviews>>

ReviewInit == idleEngine

ReviewIds == {null} \cup {<<id>> : id \in Submissions}

ReviewNext ==
  \/ \E s \in Submissions, email \in {<<e>> : e \in Emails} \cup {null} : PostReview(s, email)
  \/ \E s \in Submissions : FindOneReturns(s)
  \/ \E s \in Submissions : CreateReturns(s)
  \/ GetReviews
  \/ \E auth \in Tokens, reviewId \in ReviewIds, status \in {"approved", "rejected", "pending"} :
       Patch(auth, reviewId, status)
  \/ \E auth \in Tokens, reviewId \in ReviewIds : DeleteReview(auth, reviewId)
  \/ Pass

ReviewSpec == ReviewInit /\ [][ReviewNext]_vars

(***************************************************************************)
(* connectDB (lib/mongodb.ts).  A call runs in one piece up to its         *)
(* `await cached.promise`; what follows the await is a job of the          *)
(* microtask queue, queued when the promise settles (at once when it has   *)
(* settled already), and the jobs run in the order they were queued.       *)
(***************************************************************************)
invokeJob(c) == [kind |-> "invoke", call |-> c]

resumeJob(c) == [kind |-> "resume", call |-> c]

\* the attempts that are neither fulfilled nor rejected
inFlight == {p \in DOMAIN attempts : attempts[p] = "pending"}

\* a caller's job that will call connectDB() joins the queue; callers take the lowest
\* free number
Schedule(c) ==
  /\ connecting[c].at = "idle"
  /\ \A d \in Callers : d < c => connecting[d].at # "idle"
  /\ jobs' = Append(jobs, invokeJob(c))
  /\ connecting' = [connecting EXCEPT ![c].at = "queued"]
  /\ UNCHANGED <<mongooseCache, attempts, waiters, outsideConnect>>

\* connectDB() is called: it returns cached.conn, or makes cached.promise when there is
\* none, and suspends at `await cached.promise`
Invoke(c) ==
  /\ jobs # << >>
  /\ Head(jobs) = invokeJob(c)
  /\ IF mongooseCache.conn # null
     THEN /\ connecting' = [connecting EXCEPT
                              ![c] = [at |-> "returned", on |-> null, got |-> mongooseCache.conn]]
          /\ jobs' = Tail(jobs)
          /\ UNCHANGED <<mongooseCache, attempts, waiters>>
     ELSE LET fresh == mongooseCache.promise = null
              p == IF fresh THEN Len(attempts) + 1 ELSE mongooseCache.promise[1]
              started == IF fresh THEN Append(attempts, "pending") ELSE attempts
              listening == IF fresh THEN Append(waiters, << >>) ELSE waiters
          IN  /\ attempts' = started
              /\ mongooseCache' = [mongooseCache EXCEPT !.promise = <<p>>]
              /\ connecting' = [connecting EXCEPT
                                  ![c] = [at |-> "awaiting", on |-> <<p>>, got |-> null]]
              /\ IF started[p] = "pending"
                 THEN /\ waiters' = [listening EXCEPT ![p] = Append(@, c)]
                      /\ jobs' = Tail(jobs)
                 ELSE /\ waiters' = listening
                      /\ jobs' = Append(Tail(jobs), resumeJob(c))
  /\ UNCHANGED outsideConnect

\* mongoose.connect(...).then(...) settles: the continuations of the calls awaiting it
\* join the queue in the order in which they began to wait
Settle(p, ok) ==
  /\ p \in inFlight
  /\ attempts' = [attempts EXCEPT ![p] = IF ok THEN "fulfilled" ELSE "rejected"]
  /\ jobs' = jobs \o [i \in 1..Len(waiters[p]) |-> resumeJob(waiters[p][i])]
  /\ waiters' = [waiters EXCEPT ![p] = << >>]
  /\ UNCHANGED <<mongooseCache, connecting, outsideConnect>>

\* the call resumes after its await: cached.conn is set and returned, or the catch block
\* sets cached.promise to null and throws
Resume(c) ==
  /\ jobs # << >>
  /\ Head(jobs) = resumeJob(c)
  /\ jobs' = Tail(jobs)
  /\ LET p == connecting[c].on[1]
     IN  IF attempts[p] = "fulfilled"
         THEN /\ mongooseCache' = [mongooseCache EXCEPT !.conn = <<p>>]
              /\ connecting' = [connecting EXCEPT ![c].at = "returned", ![c].got = <<p>>]
         ELSE /\ mongooseCache' = [mongooseCache EXCEPT !.promise = null]
              /\ connecting' = [connecting EXCEPT ![c].at = "threw"]
  /\ UNCHANGED <<attempts, waiters, outsideConnect>>

ConnectInit == idleEngine

ConnectNext ==
  \/ \E c \in Callers : Schedule(c)
  \/ \E c \in Callers : Invoke(c)
  \/ \E p \in DOMAIN attempts, ok \in BOOLEAN : Settle(p, ok)
  \/ \E c \in Callers : Resume(c)

ConnectSpec == ConnectInit /\ [][ConnectNext]_vars

(***************************************************************************)
(* Properties.                                                             *)
(***************************************************************************)
Dimensions ==
  {"codeQuality", "architecture", "documentation", "security", "bestPractices",
   "communityHealth", "productionReadiness"}

\* C1: every dimension score and the overall score of a returned result is an integer
\* between 0 and 100, also when the adjustments of a scorer add up to more than 100.
C1_ScoresInRange ==
  \A c \in Calls :
    pc[c] = "done" => \A d \in Dimensions \cup {"overall"} : result[c].scores[d] \in 0..100

\* all 14 recognized directories, a src directory and .gitignore: 40 + 70 + 15 + 5 = 130
C1_Witness ==
  /\ pc[1] = "done"
  /\ \A i \in 1..Len(goodDirs) : some(input.fileTree, LAMBDA f : f = dir(goodDirs[i]))
  /\ input.hasGitignore
  /\ result[1].scores.architecture = 100

\* C2: the returned overall score is the weighted sum of the seven returned dimension
\* scores (weights 0.20, 0.15, 0.15, 0.15, 0.10, 0.10, 0.15) rounded to the nearest
\* integer, halves up.  The scores are multiples of 5, which is what makes the
\* double arithmetic of the code exact.
C2_OverallIsRoundedWeightedSum ==
  \A c \in Calls :
    pc[c] = "done" =>
      LET s == result[c].scores
          sum100 == 20 * s.codeQuality + 15 * s.architecture + 15 * s.documentation
                    + 15 * s.security + 10 * s.bestPractices + 10 * s.communityHealth
                    + 15 * s.productionReadiness
      IN  /\ \A d \in Dimensions : s[d] % 5 = 0
          /\ 100 * s.overall - 50 <= sum100
          /\ sum100 < 100 * s.overall + 50

\* a weighted sum that ends in .5 and is rounded up
C2_Witness ==
  /\ pc[1] = "done"
  /\ weightedSum100(result[1].scores) % 100 = 50
  /\ 100 * result[1].scores.overall = weightedSum100(result[1].scores) + 50

\* what two results share when they are the same analysis: the scores, the tech stack,
\* the missing files and, when both come from the fallback, its three outputs
sameAnalysis(r1, r2) ==
  /\ r1.scores = r2.scores
  /\ r1.techStack = r2.techStack
  /\ r1.missingFiles = r2.missingFiles
  /\ (~r1.aiPowered /\ ~r2.aiPowered) =>
       /\ r1.aiSummary = r2.aiSummary
       /\ r1.aiSuggestions = r2.aiSuggestions
       /\ r1.insights = r2.insights

\* C3: two calls on the same snapshot, made at any two points in time, return the same
\* scores, tech stack and missing files, and on the fallback path the same summary,
\* suggestions and insights.
C3_Deterministic ==
  (pc[1] = "done" /\ pc[2] = "done") => sameAnalysis(result[1], result[2])

\* the provider's answer has the (summary, suggestions, insights) shape
matchesSchema(response) ==
  /\ response.kind = "json"
  /\ response.summary = "text"
  /\ response.suggestions >= 0
  /\ response.insights = "array"

\* the enhancement of call c failed: no key, or an answer that is no such object
enhancementFailed(c) == ~apiKey[c] \/ ~matchesSchema(outcome[c])

\* C4: when the enhancement fails (no key, exception, non-JSON answer, JSON that does
\* not match the schema), the result carries exactly the fallback's summary, suggestions
\* and insights, with aiPowered false.
C4_FailureGivesFallback ==
  \A c \in Calls :
    (pc[c] = "done" /\ enhancementFailed(c)) =>
      LET fallback == generateFallbackInsights(input, scores[c])
      IN  /\ ~result[c].aiPowered
          /\ result[c].aiSummary = fallback.summary
          /\ result[c].aiSuggestions = fallback.suggestions
          /\ result[c].insights = fallback.insights

\* C5: every returned result has at most 8 insights and at most 5 suggestions, on the
\* fallback path and on the provider path.
C5_ListsCapped ==
  \A c \in Calls :
    pc[c] = "done" => Len(result[c].insights) <= 8 /\ Len(result[c].aiSuggestions) <= 5

\* C6: for one snapshot and one moment of the call, everything but the summary, the
\* suggestions, the insights and aiPowered is the same whatever the provider did
\* (answered, failed, was not configured).
C6_ProviderDoesNotInterfere ==
  (pc[1] = "done" /\ pc[2] = "done" /\ startedAt[1] = startedAt[2]) =>
    /\ result[1].scores = result[2].scores
    /\ result[1].techStack = result[2].techStack
    /\ result[1].missingFiles = result[2].missingFiles
    /\ result[1].readmeScore = result[2].readmeScore
    /\ result[1].complexityLevel = result[2].complexityLevel
    /\ result[1].estimatedTeamSize = result[2].estimatedTeamSize
    /\ result[1].repoHealth = result[2].repoHealth

\* one call answered by the provider, the other without a key, begun at the same moment,
\* on a snapshot with missing files
C6_Witness ==
  /\ pc[1] = "done" /\ pc[2] = "done" /\ startedAt[1] = startedAt[2]
  /\ result[1].aiPowered /\ ~apiKey[2]
  /\ result[1].insights # result[2].insights
  /\ result[1].missingFiles # << >>

\* C7: a call that waits for the provider returns in the end, also when the provider
\* never answers.
C7_CallReturns == \A c \in Calls : (pc[c] = "awaiting") ~> (pc[c] = "done")

\* C8: with everything else fixed, a license never lowers bestPractices or
\* productionReadiness, and tests never lower codeQuality or bestPractices.
C8_LicenseAndTestsNeverLower ==
  \A c \in Calls :
    pc[c] = "done" =>
      LET s == result[c].scores
          licensed == [input EXCEPT !.hasLicense = TRUE]
          unlicensed == [input EXCEPT !.hasLicense = FALSE]
          tested == [input EXCEPT !.hasTests = TRUE]
          untested == [input EXCEPT !.hasTests = FALSE]
      IN  /\ ~input.hasLicense =>
               /\ s.bestPractices <= calculateBestPracticesScore(licensed)
               /\ s.productionReadiness <= calculateProductionReadinessScore(licensed)
          /\ input.hasLicense =>
               /\ calculateBestPracticesScore(unlicensed) <= s.bestPractices
               /\ calculateProductionReadinessScore(unlicensed) <= s.productionReadiness
          /\ ~input.hasTests =>
               /\ s.codeQuality <= calculateCodeQualityScore(tested)
               /\ s.bestPractices <= calculateBestPracticesScore(tested)
          /\ input.hasTests =>
               /\ calculateCodeQualityScore(untested) <= s.codeQuality
               /\ calculateBestPracticesScore(untested) <= s.bestPractices

\* a snapshot without license and tests whose scores both would raise
C8_Witness ==
  /\ pc[1] = "done" /\ ~input.hasLicense /\ ~input.hasTests
  /\ result[1].scores.bestPractices
       < calculateBestPracticesScore([input EXCEPT !.hasLicense = TRUE])
  /\ result[1].scores.productionReadiness
       < calculateProductionReadinessScore([input EXCEPT !.hasLicense = TRUE])
  /\ result[1].scores.codeQuality < calculateCodeQualityScore([input EXCEPT !.hasTests = TRUE])

\* the nine items of the missing-file list in their order, each with whether the
\* snapshot has it; the snapshot has a README when input.readme is not null
checklist(in) ==
  << <<"LICENSE", "critical", in.hasLicense>>,
     <<"README.md", "critical", ~in.readme.isNull>>,
     <<".gitignore", "critical", in.hasGitignore>>,
     <<"tests/", "critical", in.hasTests>>,
     <<".github/workflows/", "recommended", in.hasCICD>>,
     <<".env.example", "recommended", in.hasEnvExample>>,
     <<"CONTRIBUTING.md", "recommended", in.hasContributing>>,
     <<"CHANGELOG.md", "nice-to-have", in.hasChangelog>>,
     <<"Dockerfile", "nice-to-have", in.hasDockerfile>> >>

absentItems(in) ==
  LET absent == SelectSeq(checklist(in), LAMBDA item : ~item[3])
  IN  [i \in 1..Len(absent) |-> [name |-> absent[i][1], importance |-> absent[i][2]]]

\* C9: the missing-file list is exactly the absent items, one entry each, in the fixed
\* order and with the fixed importance; no item that is present appears.
C9_MissingFilesAreTheAbsentItems ==
  \A c \in Calls : pc[c] = "done" => result[c].missingFiles = absentItems(input)

\* what does hold: the same with README.md counted as absent also when the README is
\* the empty string
MissingFilesAreTheAbsentItemsOrEmptyReadme ==
  \A c \in Calls :
    pc[c] = "done" =>
      result[c].missingFiles
        = absentItems([input EXCEPT !.readme.isNull = ~readmeTruthy(input.readme)])

\* the stage that yields an item, and the item's place within the stage
stageOf(item) == IF item.confidence = 9 THEN 1 ELSE IF item.confidence = 8 THEN 2 ELSE 3

placeOf(in, item) ==
  IF stageOf(item) = 1 THEN CHOOSE i \in 1..Len(in.repo.languages) : in.repo.languages[i] = item.name
  ELSE IF stageOf(item) = 2
  THEN CHOOSE k \in 1..Len(frameworkDetectors) : frameworkDetectors[k].name = item.name
  ELSE CHOOSE k \in 1..Len(readmeDetectors) : readmeDetectors[k].name = item.name

isLanguage(in, name) == some(in.repo.languages, LAMBDA l : l = name)

matchesPath(in, name) ==
  \E k \in 1..Len(frameworkDetectors) :
    /\ frameworkDetectors[k].name = name
    /\ some(in.fileTree, LAMBDA f : includes(toLowerCase(f.path), chars[frameworkDetectors[k].pattern]))

matchesReadme(in, name) ==
  /\ ~in.readme.isNull
  /\ \E k \in 1..Len(readmeDetectors) :
       /\ readmeDetectors[k].name = name
       /\ readmeIncludes(in.readme, chars[readmeDetectors[k].keyword])

\* C10: the tech stack has no two entries of one name; a name that several stages
\* yield keeps the entry of the first of them (language 0.9, file pattern 0.8, README
\* keyword 0.6); the order is languages, then file-pattern matches in table order, then
\* README matches in table order.
C10_TechStackDeduplicatedInOrder ==
  \A c \in Calls :
    pc[c] = "done" =>
      LET stack == result[c].techStack
          names == {stack[i].name : i \in 1..Len(stack)}
      IN  /\ \A i, j \in 1..Len(stack) : i < j => stack[i].name # stack[j].name
          /\ \A i \in 1..Len(stack) :
               stack[i].confidence = IF isLanguage(input, stack[i].name) THEN 9
                                     ELSE IF matchesPath(input, stack[i].name) THEN 8
                                     ELSE 6
          /\ \A i, j \in 1..Len(stack) :
               i < j => \/ stageOf(stack[i]) < stageOf(stack[j])
                        \/ /\ stageOf(stack[i]) = stageOf(stack[j])
                           /\ placeOf(input, stack[i]) < placeOf(input, stack[j])
          /\ \A i \in 1..Len(input.repo.languages) : input.repo.languages[i] \in names
          /\ \A k \in 1..Len(frameworkDetectors) :
               matchesPath(input, frameworkDetectors[k].name) => frameworkDetectors[k].name \in names
          /\ \A k \in 1..Len(readmeDetectors) :
               matchesReadme(input, readmeDetectors[k].name) => readmeDetectors[k].name \in names

\* a language that a file pattern yields too, and a language that the README yields too
C10_Witness ==
  /\ pc[1] = "done"
  /\ \E i \in 1..Len(result[1].techStack) :
       LET item == result[1].techStack[i]
       IN  item.confidence = 9 /\ (matchesPath(input, item.name) \/ matchesReadme(input, item.name))
  /\ \E i \in 1..Len(result[1].techStack) : result[1].techStack[i].confidence = 8
  /\ \E i \in 1..Len(result[1].techStack) : result[1].techStack[i].confidence = 6

wellMaintained(in, today) ==
  /\ in.hasTests /\ in.hasCICD /\ in.hasLicense /\ in.hasGitignore
  /\ ~in.hasEnvExample /\ ~in.hasContributing /\ ~in.hasChangelog /\ ~in.hasDockerfile
  /\ some(in.fileTree, LAMBDA f : f = dir("tests"))
  /\ some(in.fileTree, LAMBDA f : f = file(".github/workflows/ci.yml"))
  /\ ~in.readme.isNull /\ readmeLength(in.readme) = 2000
  /\ readmeIncludes(in.readme, chars["installation"]) /\ readmeIncludes(in.readme, chars["usage"])
  /\ Len(in.contributors) = 6 /\ in.repo.stars = 150
  /\ today - in.repo.pushedAt = 2

\* C11 as stated: the well-maintained repository scores bestPractices >= 90 and
\* communityHealth >= 75.
C11_WellMaintainedScoresAsStated ==
  \A c \in Calls :
    (pc[c] = "done" /\ wellMaintained(input, startedAt[c])) =>
      result[c].scores.bestPractices >= 90 /\ result[c].scores.communityHealth >= 75

\* C11, amended: the well-maintained repository scores bestPractices >= 85 and
\* communityHealth >= 75.
C11_WellMaintainedScores ==
  \A c \in Calls :
    (pc[c] = "done" /\ wellMaintained(input, startedAt[c])) =>
      result[c].scores.bestPractices >= 85 /\ result[c].scores.communityHealth >= 75

\* the well-maintained repository with no closed issues and no topics, analysed
C11_Witness ==
  /\ pc[1] = "done" /\ wellMaintained(input, startedAt[1])
  /\ input.issues = << >> /\ input.repo.topics = << >>
  /\ result[1].scores.bestPractices = 85
  /\ result[1].scores.communityHealth = 80

\* C12 as stated: the well-maintained repository has an overall score of at least 70
\* and the repoHealth label "good" or "excellent".
C12_WellMaintainedIsHealthy ==
  \A c \in Calls :
    (pc[c] = "done" /\ wellMaintained(input, startedAt[c])) =>
      /\ result[c].scores.overall >= 70
      /\ result[c].repoHealth \in {"good", "excellent"}

\* C12, amended: the well-maintained repository has an overall score of at least 50 and
\* the repoHealth label "fair", "good" or "excellent".
C12_WellMaintainedIsAtLeastFair ==
  \A c \in Calls :
    (pc[c] = "done" /\ wellMaintained(input, startedAt[c])) =>
      /\ result[c].scores.overall >= 50
      /\ result[c].repoHealth \in {"fair", "good", "excellent"}

\* the well-maintained repository with nothing but the files the scenario names:
\* 0.2*75 + 0.15*50 + 0.15*40 + 0.15*65 + 0.1*85 + 0.1*80 + 0.15*65 = 64.5
C12_Witness ==
  /\ pc[1] = "done" /\ wellMaintained(input, startedAt[1])
  /\ input.fileTree = wellMaintainedTree
  /\ result[1].scores.overall = 65
  /\ result[1].repoHealth = "fair"

emptySnapshot(in) ==
  /\ in.fileTree = << >> /\ in.readme.isNull
  /\ in.contributors = << >> /\ in.issues = << >>
  /\ in.repo.stars = 0 /\ in.repo.forks = 0
  /\ \A flag \in DOMAIN noFlags : ~in[flag]

\* C13: the empty snapshot is analysed to a result with documentation score 0, a
\* missing-file list that holds LICENSE, README.md, .gitignore and tests/ as critical,
\* and the repoHealth label "critical" or "needs-work", whatever the push date.
C13_EmptySnapshotAnalysed ==
  \A c \in Calls :
    (pc[c] # "idle" /\ emptySnapshot(input)) =>
      /\ pc[c] = "done"
      /\ result[c].scores.documentation = 0
      /\ \A name \in {"LICENSE", "README.md", ".gitignore", "tests/"} :
           \E i \in 1..Len(result[c].missingFiles) :
             result[c].missingFiles[i] = [name |-> name, importance |-> "critical"]
      /\ result[c].repoHealth \in {"critical", "needs-work"}

\* the empty snapshot pushed on the day of the call, where communityHealth is highest
C13_Witness ==
  /\ pc[1] = "done" /\ emptySnapshot(input)
  /\ input.repo.pushedAt = startedAt[1]
  /\ result[1].scores.communityHealth = 45
  /\ result[1].repoHealth = "needs-work"

\* the first segments of the paths that lie in a directory or are one
topLevelDirs(in) ==
  {splitFirst(in.fileTree[i].path) :
     i \in {j \in 1..Len(in.fileTree) :
              in.fileTree[j].type = "dir" \/ includes(in.fileTree[j].path, chars["/"])}}

flagsFlatStructure(ins) ==
  ins.category = "architecture" /\ ins.severity = "warning" /\ ins.title = "Flat Project Structure"

\* C14 as stated: a tree of 200 files under only 2 top-level directories gets the
\* flat-structure warning, whatever the nesting below them.
C14_TwoTopLevelDirsAreFlat ==
  \A c \in Calls :
    (pc[c] = "done" /\ ~result[c].aiPowered /\ totalFilesOf(input) = 200
       /\ Cardinality(topLevelDirs(input)) = 2) =>
      some(result[c].insights, flagsFlatStructure)

\* C14, amended: a tree of 200 files under only 2 top-level directories gets the
\* flat-structure warning when it lists fewer than 5 directories, nested ones counted.
C14_FewDirectoriesAreFlat ==
  \A c \in Calls :
    (pc[c] = "done" /\ ~result[c].aiPowered /\ totalFilesOf(input) = 200
       /\ Cardinality(topLevelDirs(input)) = 2 /\ totalDirsOf(input) < 5) =>
      some(result[c].insights, flagsFlatStructure)

\* 200 files under src and lib with two nested directories: four directories in all
C14_Witness ==
  /\ pc[1] = "done" /\ totalFilesOf(input) = 200
  /\ Cardinality(topLevelDirs(input)) = 2 /\ totalDirsOf(input) = 4
  /\ some(result[1].insights, flagsFlatStructure)
  /\ Len(result[1].insights) = 8

soloDeveloper(ins) ==
  ins.category = "architecture" /\ ins.severity = "info" /\ ins.title = "Solo Developer Project"

contributorCommunity(ins) ==
  ins.category = "architecture" /\ ins.severity = "success"
  /\ ins.title = "Active Contributor Community"

\* C15: the fallback's insights, after the cap of 8, hold the solo-developer insight
\* when there is exactly 1 contributor, and the contributor-community insight and not
\* the solo-developer one when there are 5 or more, whatever other rules fire.
C15_ContributorInsightReturned ==
  \A c \in Calls :
    (pc[c] = "done" /\ ~result[c].aiPowered) =>
      /\ Len(input.contributors) = 1 => some(result[c].insights, soloDeveloper)
      /\ Len(input.contributors) >= 5 =>
           /\ some(result[c].insights, contributorCommunity)
           /\ ~some(result[c].insights, soloDeveloper)

\* what does hold: the insight is returned when fewer than 8 insights precede it
ContributorInsightReturnedUnlessCut ==
  \A c \in Calls :
    (pc[c] = "done" /\ ~result[c].aiPowered /\ Len(result[c].insights) < 8) =>
      /\ Len(input.contributors) = 1 => some(result[c].insights, soloDeveloper)
      /\ Len(input.contributors) >= 5 =>
           /\ some(result[c].insights, contributorCommunity)
           /\ ~some(result[c].insights, soloDeveloper)

\* the counts of a snapshot are not negative
countsAreValid(in) == in.repo.stars >= 0 /\ in.repo.forks >= 0

\* C16: a snapshot with a negative count is rejected: no call on it produces a result.
C16_MalformedSnapshotRejected ==
  \A c \in Calls : pc[c] = "done" => countsAreValid(input)

\* the texts of the rule-driven suggestions, each with the condition of its rule
ruleTexts(in, s) ==
  << <<~in.hasTests, "Implement automated testing">>,
     <<~in.hasCICD, "Set up GitHub Actions CI/CD">>,
     <<s.documentation < 50, "Improve documentation">>,
     <<s.security < 60, "Address security concerns">> >>

\* C17: the fallback returns exactly 5 suggestions of pairwise distinct text: the
\* suggestions of the rules that fired (testing, CI, documentation, security) in rule
\* order, then the backfill list in its order, as far as needed.
C17_FiveDistinctSuggestions ==
  \A c \in Calls :
    (pc[c] = "done" /\ ~result[c].aiPowered) =>
      LET given == result[c].aiSuggestions
          fired == SelectSeq(ruleTexts(input, result[c].scores), LAMBDA r : r[1])
          backfill == contextSuggestions(input)
      IN  /\ Len(given) = 5
          /\ \A i, j \in 1..Len(given) : i < j => given[i].text # given[j].text
          /\ \A i \in 1..Len(given) :
               IF i <= Len(fired) THEN given[i].text = fired[i][2]
               ELSE given[i] = backfill[i - Len(fired)]

\* all four rules fire, and the backfill supplies the fifth suggestion
C17_Witness ==
  /\ pc[1] = "done" /\ ~result[1].aiPowered
  /\ ~input.hasTests /\ ~input.hasCICD
  /\ result[1].scores.documentation < 50 /\ result[1].scores.security < 60
  /\ result[1].aiSuggestions[4].text = "Address security concerns"
  /\ result[1].aiSuggestions[5] = contextSuggestions(input)[1]

\* the repoHealth tier that a label of the summary denotes
tierOfLabel(label) == IF label = "needs improvement" THEN "needs-work" ELSE label

\* C18: the health label of the fallback summary and the result's repoHealth denote the
\* same tier (>= 85 excellent, >= 70 good, >= 50 fair, >= 30 needs-work, else critical).
C18_SummaryTierIsRepoHealth ==
  \A c \in Calls :
    (pc[c] = "done" /\ ~result[c].aiPowered) =>
      tierOfLabel(result[c].aiSummary.healthLabel) = result[c].repoHealth

\* what does hold: the two agree from 30 up
SummaryTierIsRepoHealthFromThirty ==
  \A c \in Calls :
    (pc[c] = "done" /\ ~result[c].aiPowered /\ result[c].scores.overall >= 30) =>
      tierOfLabel(result[c].aiSummary.healthLabel) = result[c].repoHealth

\* the name of a dimension in the summary
areaName ==
  [d \in Dimensions |->
     CASE d = "codeQuality" -> "code quality"
       [] d = "architecture" -> "architecture"
       [] d = "documentation" -> "documentation"
       [] d = "security" -> "security"
       [] d = "bestPractices" -> "best practices"
       [] d = "communityHealth" -> "community health"
       [] d = "productionReadiness" -> "production readiness"]

namesIn(seq) == {seq[i] : i \in 1..Len(seq)}

\* C19: the summary's strength list names exactly the dimensions, of the seven, that
\* score 70 or more, and its weakness list exactly those that score less than 50.
C19_AreasCoverSevenDimensions ==
  \A c \in Calls :
    (pc[c] = "done" /\ ~result[c].aiPowered) =>
      LET s == result[c].scores
      IN  /\ namesIn(result[c].aiSummary.strengthAreas)
               = {areaName[d] : d \in {e \in Dimensions : s[e] >= 70}}
          /\ namesIn(result[c].aiSummary.weakAreas)
               = {areaName[d] : d \in {e \in Dimensions : s[e] < 50}}

\* what does hold: the same over the five dimensions the summary looks at
AreasCoverFiveDimensions ==
  \A c \in Calls :
    (pc[c] = "done" /\ ~result[c].aiPowered) =>
      LET s == result[c].scores
          five == Dimensions \ {"communityHealth", "productionReadiness"}
      IN  /\ namesIn(result[c].aiSummary.strengthAreas)
               = {areaName[d] : d \in {e \in five : s[e] >= 70}}
          /\ namesIn(result[c].aiSummary.weakAreas)
               = {areaName[d] : d \in {e \in five : s[e] < 50}}

\* the files of the tree, and those whose path contains test, spec or __tests__
filesOf(in) == {i \in 1..Len(in.fileTree) : in.fileTree[i].type = "file"}

testLikeFilesOf(in) ==
  {i \in filesOf(in) :
     \E word \in {"test", "spec", "__tests__"} : includes(in.fileTree[i].path, chars[word])}

\* C20: the fallback's first insight is its one testing insight: critical, with a
\* testing suggestion naming the framework of the primary language, when hasTests is
\* false; warning when hasTests is true and the test-like files are fewer than 10% of
\* the files; success citing the number of test-like files otherwise, also for a tree
\* without files.
C20_OneTestingInsightFirst ==
  \A c \in Calls :
    (pc[c] = "done" /\ ~result[c].aiPowered) =>
      LET ins == result[c].insights
          tests == Cardinality(testLikeFilesOf(input))
          files == Cardinality(filesOf(input))
      IN  /\ Len(ins) >= 1 /\ ins[1].category = "testing"
          /\ \A i \in 2..Len(ins) : ins[i].category # "testing"
          /\ ins[1].severity = IF ~input.hasTests THEN "critical"
                               ELSE IF 10 * tests < files THEN "warning"
                               ELSE "success"
          /\ ~input.hasTests =>
               /\ result[c].aiSuggestions[1].text = "Implement automated testing"
               /\ result[c].aiSuggestions[1].word = testFrameworkFor(primaryLanguage(input))
          /\ ins[1].severity = "success" => ins[1].nums = <<tests>>

\* tests declared and a tree without files: success citing 0 test files
C20_Witness ==
  /\ pc[1] = "done" /\ ~result[1].aiPowered
  /\ input.hasTests /\ filesOf(input) = {}
  /\ result[1].insights[1].severity = "success"
  /\ result[1].insights[1].nums = <<0>>

needsAttention(ins) == ins.category = "security" /\ ins.title = "Security Practices Need Attention"

\* C29: when the fallback gives the security insight (security score below 60), the
\* snapshot has no env template, the gaps listed hold the missing .env.example and
\* are never the placeholder, and the severity is critical exactly for the score 30:
\* a tracked .env file, no template, no .gitignore, no security policy, no lock file.
C29_SecurityInsightNamesEnvTemplate ==
  \A c \in Calls :
    (pc[c] = "done" /\ ~result[c].aiPowered) =>
      \A i \in 1..Len(result[c].insights) :
        LET ins == result[c].insights[i]
        IN  needsAttention(ins) =>
              /\ result[c].scores.security < 60
              /\ ~input.hasEnvExample
              /\ "no .env.example for secret management" \in namesIn(ins.words)
              /\ "review security configuration" \notin namesIn(ins.words)
              /\ ins.severity \in {"critical", "warning"}
              /\ ins.severity = "critical" <=> result[c].scores.security = 30
              /\ ins.severity = "critical" =>
                   /\ \E k \in 1..Len(input.fileTree) : includes(input.fileTree[k].path, chars[".env"])
                   /\ ~input.hasGitignore
                   /\ \A k \in 1..Len(input.fileTree) :
                        /\ ~includes(toLowerCase(input.fileTree[k].path), chars["security"])
                        /\ \A lock \in lockFiles : input.fileTree[k].path # chars[lock]

\* a tracked .env file and a lock file, nothing else: the score 40, a warning
C29_Witness ==
  /\ pc[1] = "done" /\ ~result[1].aiPowered
  /\ result[1].scores.security = 40
  /\ \E i \in 1..Len(result[1].insights) :
       needsAttention(result[1].insights[i]) /\ result[1].insights[i].severity = "warning"

\* the root files of the tree
rootFilesOf(in) ==
  {i \in 1..Len(in.fileTree) :
     in.fileTree[i].type = "file" /\ ~includes(in.fileTree[i].path, chars["/"])}

\* C30: the overall score is at least 28 (codeQuality >= 40, architecture >= 40,
\* security >= 30, bestPractices >= 30, communityHealth >= 30, productionReadiness >= 20),
\* and repoHealth is "critical" only for 28 and 29, with more than 15 root files and a
\* tracked .env file without a template.
C30_OverallAtLeastTwentyEight ==
  \A c \in Calls :
    pc[c] = "done" =>
      LET s == result[c].scores
      IN  /\ s.overall >= 28
          /\ s.codeQuality >= 40 /\ s.architecture >= 40 /\ s.security >= 30
          /\ s.bestPractices >= 30 /\ s.communityHealth >= 30 /\ s.productionReadiness >= 20
          /\ result[c].repoHealth = "critical" =>
               /\ s.overall \in {28, 29}
               /\ Cardinality(rootFilesOf(input)) > 15
               /\ ~input.hasEnvExample
               /\ \E k \in 1..Len(input.fileTree) : includes(input.fileTree[k].path, chars[".env"])

\* the lowest overall score
C30_Witness ==
  /\ pc[1] = "done"
  /\ result[1].scores.overall = 28
  /\ result[1].repoHealth = "critical"

(***************************************************************************)
(* The cache.                                                              *)
(***************************************************************************)
\* the time to live of a set as its caller gave it: 24 hours when none is given
ttlAsGiven(ttlMs) == IF ttlMs = null THEN defaultTTL ELSE ttlMs[1]

\* the time to live of a set, a given 0 counting as none given
ttlOrDefault(ttlMs) == IF ttlMs = null \/ ttlMs[1] = 0 THEN defaultTTL ELSE ttlMs[1]

\* the latest set of key was not deleted or cleared, and at most ttl has passed since
isFresh(key, ttl) ==
  /\ key \in DOMAIN lastSet
  /\ key \notin removed
  /\ clock - lastSet[key].at <= ttl

\* C25 as stated: get(key) returns the data of the latest set of key if and only if that
\* entry was not deleted or cleared and at most its ttl, as given to set (24 hours when
\* none was given), has passed; otherwise null, and get and cleanup remove expired entries.
C25_GetReturnsLatestWithinGivenTtl ==
  [][ /\ \A key \in CacheKeys :
          Get(key) =>
            LET fresh == isFresh(key, IF key \in DOMAIN lastSet
                                      THEN ttlAsGiven(lastSet[key].ttlMs) ELSE 0)
            IN  /\ returned'.value = IF fresh THEN <<lastSet[key].data>> ELSE null
                /\ ~fresh => key \notin DOMAIN cache'
      /\ Cleanup =>
            \A k \in DOMAIN cache' : isFresh(k, ttlAsGiven(lastSet[k].ttlMs))]_vars

\* C25, amended: the same, where a ttl of 0 given to set counts as none given (24 hours).
C25_GetReturnsLatestWithinTtl ==
  [][ /\ \A key \in CacheKeys :
          Get(key) =>
            LET fresh == isFresh(key, IF key \in DOMAIN lastSet
                                      THEN ttlOrDefault(lastSet[key].ttlMs) ELSE 0)
            IN  /\ returned'.value = IF fresh THEN <<lastSet[key].data>> ELSE null
                /\ ~fresh => key \notin DOMAIN cache'
                /\ ~fresh => cacheSize(cache') = cacheSize(cacheDelete(cache, key))
      /\ Cleanup =>
            /\ \A k \in DOMAIN cache' : isFresh(k, ttlOrDefault(lastSet[k].ttlMs))
            /\ \A k \in DOMAIN cache \ DOMAIN cache' :
                 ~isFresh(k, ttlOrDefault(lastSet[k].ttlMs))]_vars

\* a get found an entry set without a ttl more than 24 hours ago and removed it, and the
\* other key, set later, is still served
C25_Witness ==
  /\ returned.op = "get"
  /\ returned.value = null
  /\ returned.key \in DOMAIN lastSet \ removed
  /\ lastSet[returned.key].ttlMs = null
  /\ clock - lastSet[returned.key].at > DayTicks
  /\ returned.key \notin DOMAIN cache
  /\ cacheSize(cache) = 1

(***************************************************************************)
(* POST /api/analyze.                                                      *)
(***************************************************************************)
\* C21: for each client ip, at most RATE_LIMIT_MAX requests are admitted within any period
\* of RATE_LIMIT_WINDOW_MS: of the admissions of one ip, no more than RATE_LIMIT_MAX lie
\* less than RATE_LIMIT_WINDOW_MS after any one of them.
C21_AtMostMaxAdmittedInAnyWindow ==
  \A ip \in DOMAIN admitted :
    \A i \in 1..Len(admitted[ip]) :
      Cardinality({j \in i..Len(admitted[ip]) :
                     admitted[ip][j] - admitted[ip][i] < RATE_LIMIT_WINDOW_MS}) <= RATE_LIMIT_MAX

\* C24: for one repository, whatever the case of owner and repo, fetchRepoData (and with
\* it analyzeRepository) is begun at most once per 24 hours: any two of its calls for one
\* cache key lie at least 24 hours apart.
C24_AtMostOneFetchPerDay ==
  \A i, j \in 1..Len(fetches) :
    (i < j /\ fetches[i].key = fetches[j].key) => fetches[j].at - fetches[i].at >= DayTicks

cachedFields ==
  {"overallScore", "scores", "complexityLevel", "repoHealth", "insights", "techStack",
   "missingFiles", "aiSummary", "aiSuggestions", "aiPowered"}

\* C28: the body of a cache hit carries, in its ten analysis fields, the values and the
\* representation of the body of a fresh response for the repository.
C28_HitBodyIsAFreshBody ==
  \A r \in Requests :
    (rpc[r] = "done" /\ reply[r].status = 200 /\ reply[r].body.cached) =>
      \E powered \in BOOLEAN, today \in 0..(MaxClock \div DayTicks) :
        LET fresh == freshBody(parseRepoUrl(request[r].repoUrl[1]), analysisOn[powered][today])
        IN  \A f \in cachedFields : reply[r].body[f] = fresh[f]

(***************************************************************************)
(* Reviews.                                                                *)
(***************************************************************************)
\* C22: at most one review per email address, as stored, is created within any 24 hours:
\* two reviews with one email lie at least 24 hours apart.
C22_OneReviewPerEmailPerDay ==
  \A i, j \in DOMAIN reviews :
    (i # j /\ reviews[i].email = reviews[j].email /\ reviews[i].createdAt <= reviews[j].createdAt)
      => reviews[j].createdAt - reviews[i].createdAt >= DayTicks

\* a token that jwt.verify accepts and that carries the role admin
isAdminToken(auth) == auth # null /\ auth[1].signed /\ auth[1].role = "admin"

\* C23: a review created by POST starts pending; the public GET returns only approved
\* reviews; a status changes only by a PATCH with a valid admin token; a PATCH or DELETE
\* without one answers 401 and changes nothing (a step answers 401 and leaves the reviews
\* alone, or it is no PATCH or DELETE without a valid admin token).
C23_ModerationGate ==
  [][ /\ \A id \in DOMAIN reviews' \ DOMAIN reviews : reviews'[id].status = "pending"
      /\ GetReviews =>
            \A id \in answer'.reviews : id \in DOMAIN reviews /\ reviews[id].status = "approved"
      /\ \A id \in DOMAIN reviews \cap DOMAIN reviews' :
            reviews'[id].status # reviews[id].status =>
              \E auth \in Tokens, status \in {"approved", "rejected"} :
                isAdminToken(auth) /\ Patch(auth, <<id>>, status)
      /\ \/ answer'.status = 401 /\ reviews' = reviews
         \/ \A auth \in {a \in Tokens : ~isAdminToken(a)}, reviewId \in ReviewIds :
              /\ ~DeleteReview(auth, reviewId)
              /\ \A status \in {"approved", "rejected", "pending"} :
                   ~Patch(auth, reviewId, status) ]_vars

\* the public GET returned an approved review while another review is still pending
C23_Witness ==
  /\ answer.to = "GET"
  /\ answer.reviews # {}
  /\ \A id \in answer.reviews : id \in DOMAIN reviews /\ reviews[id].status = "approved"
  /\ \E id \in DOMAIN reviews : reviews[id].status = "pending"

\* C26: a status only moves from pending to approved or from pending to rejected; a
\* review that is approved or rejected keeps its status.
C26_StatusOnlyLeavesPending ==
  [][\A id \in DOMAIN reviews \cap DOMAIN reviews' :
       reviews'[id].status # reviews[id].status =>
         (reviews[id].status = "pending" /\ reviews'[id].status \in {"approved", "rejected"})]_vars

(***************************************************************************)
(* connectDB.                                                              *)
(***************************************************************************)
\* C27: at most one mongoose.connect attempt is in flight at a time, and it is the cached
\* promise (no failure handler of an earlier attempt has discarded it); the calls that
\* waited for an attempt that succeeded received its connection; the calls that waited
\* for an attempt that failed got the error.
C27_OneAttemptInFlight ==
  /\ Cardinality(inFlight) <= 1
  /\ \A p \in inFlight : mongooseCache.promise = <<p>>
  /\ \A c \in Callers :
       /\ (connecting[c].at = "returned" /\ connecting[c].on # null) =>
             (connecting[c].got = connecting[c].on /\ attempts[connecting[c].on[1]] = "fulfilled")
       /\ connecting[c].at = "threw" => attempts[connecting[c].on[1]] = "rejected"

====
